---- MODULE Spec2Model ----
(***************************************************************************)
(* A model of the cron scheduling engine of ddeutil-pipe                    *)
(* (src/src/ddeutil/workflow/vendors/scheduler.py): the CronPart / CronJob  *)
(* value sets and the CronRunner cursor with its field-carry search.        *)
(***************************************************************************)
EXTENDS Integers, Sequences, FiniteSets, TLC

VARIABLES
    cron,        \* CronRunner.cron: the expression the runner walks
    true_start,  \* the `date` argument handed to CronRunner.__init__
    date,        \* CronRunner.date: the cursor
    start_date,  \* CronRunner.__start_date
    reset_flag,  \* CronRunner.reset_flag
    calls,       \* number of next/prev/reset calls made so far
    last,        \* the last call: operation, outcome, cursor before, origin
    text,        \* the text handed to CronJob, then the text str(cron) gives
    option,      \* the Options the CronJob is built with
    dialect,     \* "std" (CronJob) or "aws" (CronJobAWS)
    pc,          \* where the text is: "text", "parsed", "printed", "reparsed", ...
    first,       \* the text first handed in and the CronJob it gave
    input,       \* the list[list[int]] handed to CronJob, or the two inputs compared
    other,       \* the second CronJob of a comparison
    cmp,         \* the outcomes of the comparisons of cron and other
    search,      \* the frame of a running find_date: pass, level, current_value
    runners,     \* two CronRunner objects scheduled from the same CronJob
    log          \* per runner, the calls made and what each returned

vars ==
    <<cron, true_start, date, start_date, reset_flag, calls, last,
      text, option, dialect, pc, first, input, other, cmp,
      search, runners, log>>

(***************************************************************************)
(* Bounds of the model.                                                     *)
(***************************************************************************)
\* number of runner calls explored from each construction
MaxCalls == 2

\* calls of next/prev/reset followed step by step through find_date
MaxSearches == 2

\* calls made on two runners of one expression, both runners together
MaxTurns == 3
\* the largest step written in the sample field texts
MaxStep == 4
\* the widest range (upper - lower bound) written in the sample field texts
MaxWidth == 3
\* years explored on each side of the start instants
YearSpan == 9

(***************************************************************************)
(* Units (CRON_UNITS, CRON_UNITS_AWS).                                      *)
(***************************************************************************)
Range(a, b) == [i \in 1..(b - a + 1) |-> a + i - 1]

CRON_UNITS ==
    << [name |-> "minute",  min |-> 0, max |-> 59, alt |-> <<>>],
       [name |-> "hour",    min |-> 0, max |-> 23, alt |-> <<>>],
       [name |-> "day",     min |-> 1, max |-> 31, alt |-> <<>>],
       [name |-> "month",   min |-> 1, max |-> 12,
        alt |-> <<"JAN", "FEB", "MAR", "APR", "MAY", "JUN",
                  "JUL", "AUG", "SEP", "OCT", "NOV", "DEC">>],
       [name |-> "weekday", min |-> 0, max |-> 6,
        alt |-> <<"SUN", "MON", "TUE", "WED", "THU", "FRI", "SAT">>] >>

CRON_UNITS_AWS ==
    CRON_UNITS \o << [name |-> "year", min |-> 1990, max |-> 2100, alt |-> <<>>] >>

(***************************************************************************)
(* Sequence helpers standing for the Python list operations the code uses.  *)
(***************************************************************************)
SeqSet(s) == {s[i] : i \in 1..Len(s)}

Contains(s, v) == \E i \in 1..Len(s) : s[i] = v

\* sorted(set): the ascending list of a finite set of integers
SortedSeq(S) ==
    IF S = {} THEN <<>>
    ELSE LET lo == CHOOSE x \in S : \A y \in S : x <= y
             hi == CHOOSE x \in S : \A y \in S : x >= y
         IN  SelectSeq(Range(lo, hi), LAMBDA v : v \in S)

\* sorted(dict.fromkeys(values)): duplicates dropped, ascending
SortedUnique(s) == SortedSeq(SeqSet(s))

\* Python's list < list (lexicographic)
ListLess(a, b) ==
    \E k \in 1..(Len(b)) :
        /\ \A i \in 1..(k - 1) : i <= Len(a) /\ a[i] = b[i]
        /\ (k > Len(a) \/ a[k] < b[k])

(***************************************************************************)
(* CronPart built from a list of integers (CronPart.__init__, list branch). *)
(* A part is [ok, values]: ok = FALSE stands for the ValueError raised.     *)
(***************************************************************************)
PartError == [ok |-> FALSE, values |-> <<>>]

\* CronPart.replace_weekday: every 7 becomes 0 in the weekday unit
replace_weekday(unit, values) ==
    IF unit.name = "weekday"
    THEN [i \in 1..Len(values) |-> IF values[i] = 7 THEN 0 ELSE values[i]]
    ELSE values

\* a slip: only the first element is compared with the domain
out_of_range_first_only(unit, values) ==
    IF Len(values) > 0 /\ values[1] < unit.min
    THEN PartError
    ELSE [ok |-> TRUE, values |-> values]

\* CronPart.out_of_range: only the first and the last element are looked at
out_of_range(unit, values) ==
    IF Len(values) > 0 /\ (values[1] < unit.min \/ values[Len(values)] > unit.max)
    THEN PartError
    ELSE [ok |-> TRUE, values |-> values]

\* CronPart.__init__ for values: list[int]
CronPartFromList(unit, values) ==
    out_of_range(unit, SortedUnique(replace_weekday(unit, values)))

(***************************************************************************)
(* Text.  A str is the sequence of its characters; the operators below are  *)
(* the Python str operations the parser and the serializer use.             *)
(***************************************************************************)
Digits == <<"0", "1", "2", "3", "4", "5", "6", "7", "8", "9">>

IsDigit(c) == \E i \in 1..10 : Digits[i] = c

DigitValue(c) == (CHOOSE i \in 1..10 : Digits[i] = c) - 1

LowerLetters ==
    <<"a", "b", "c", "d", "e", "f", "g", "h", "i", "j", "k", "l", "m",
      "n", "o", "p", "q", "r", "s", "t", "u", "v", "w", "x", "y", "z">>

UpperLetters ==
    <<"A", "B", "C", "D", "E", "F", "G", "H", "I", "J", "K", "L", "M",
      "N", "O", "P", "Q", "R", "S", "T", "U", "V", "W", "X", "Y", "Z">>

\* str.upper()
Upper(s) ==
    [i \in 1..Len(s) |->
        IF \E k \in 1..26 : LowerLetters[k] = s[i]
        THEN UpperLetters[CHOOSE k \in 1..26 : LowerLetters[k] = s[i]]
        ELSE s[i]]

\* str.count(c) for a single character
Count(s, c) == Cardinality({i \in 1..Len(s) : s[i] = c})

\* `pat in s[i:]` at position i exactly
MatchAt(s, pat, i) ==
    /\ i + Len(pat) - 1 <= Len(s)
    /\ \A k \in 1..Len(pat) : s[i + k - 1] = pat[k]

RECURSIVE ReplaceFrom(_, _, _, _)
\* str.replace(pat, rep): the occurrences left to right, not overlapping
ReplaceFrom(s, pat, rep, i) ==
    IF i > Len(s) THEN <<>>
    ELSE IF MatchAt(s, pat, i)
         THEN rep \o ReplaceFrom(s, pat, rep, i + Len(pat))
         ELSE <<s[i]>> \o ReplaceFrom(s, pat, rep, i + 1)

Replace(s, pat, rep) == ReplaceFrom(s, pat, rep, 1)

\* str.split(c): the pieces between the occurrences of c (empty ones kept)
Split(s, c) ==
    LET at == SelectSeq([i \in 1..Len(s) |-> i], LAMBDA i : s[i] = c)
        from(k) == IF k = 1 THEN 1 ELSE at[k - 1] + 1
        to(k) == IF k = Len(at) + 1 THEN Len(s) ELSE at[k] - 1
    IN  [k \in 1..(Len(at) + 1) |-> SubSeq(s, from(k), to(k))]

\* str.strip().split(): the non-empty pieces between runs of blanks
SplitBlank(s) == SelectSeq(Split(s, " "), LAMBDA piece : piece # <<>>)

RECURSIVE JoinFrom(_, _, _)
\* sep.join(list)
JoinFrom(list, sep, i) ==
    IF i > Len(list) THEN <<>>
    ELSE IF i = Len(list) THEN list[i]
    ELSE list[i] \o sep \o JoinFrom(list, sep, i + 1)

Join(list, sep) == JoinFrom(list, sep, 1)

\* the characters of a string literal of the tables (alt names)
NameChars(name) ==
    CASE name = "JAN" -> <<"J", "A", "N">> [] name = "FEB" -> <<"F", "E", "B">>
      [] name = "MAR" -> <<"M", "A", "R">> [] name = "APR" -> <<"A", "P", "R">>
      [] name = "MAY" -> <<"M", "A", "Y">> [] name = "JUN" -> <<"J", "U", "N">>
      [] name = "JUL" -> <<"J", "U", "L">> [] name = "AUG" -> <<"A", "U", "G">>
      [] name = "SEP" -> <<"S", "E", "P">> [] name = "OCT" -> <<"O", "C", "T">>
      [] name = "NOV" -> <<"N", "O", "V">> [] name = "DEC" -> <<"D", "E", "C">>
      [] name = "SUN" -> <<"S", "U", "N">> [] name = "MON" -> <<"M", "O", "N">>
      [] name = "TUE" -> <<"T", "U", "E">> [] name = "WED" -> <<"W", "E", "D">>
      [] name = "THU" -> <<"T", "H", "U">> [] name = "FRI" -> <<"F", "R", "I">>
      [] name = "SAT" -> <<"S", "A", "T">>

RECURSIVE Str(_)
\* str(n) for n >= 0: the decimal digits
Str(n) == IF n < 10 THEN <<Digits[n + 1]>> ELSE Str(n \div 10) \o <<Digits[(n % 10) + 1]>>

RECURSIVE IntFrom(_, _, _)
IntFrom(s, i, acc) ==
    IF i > Len(s) THEN acc ELSE IntFrom(s, i + 1, acc * 10 + DigitValue(s[i]))

\* int(s): [ok, n]; ok = FALSE stands for the ValueError of a text that is
\* not a run of digits
ParseInt(s) ==
    IF s # <<>> /\ \A i \in 1..Len(s) : IsDigit(s[i])
    THEN [ok |-> TRUE, n |-> IntFrom(s, 1, 0)]
    ELSE [ok |-> FALSE, n |-> 0]

(***************************************************************************)
(* CronPart parsed from text (CronPart.__init__, str branch; from_str).     *)
(***************************************************************************)
RECURSIVE ReplaceAltFrom(_, _, _)
\* CronPart.replace_alternative: each alternate name, in table order, is
\* replaced by the number str(unit.min + i)
ReplaceAltFrom(unit, value, i) ==
    IF i > Len(unit.alt) THEN value
    ELSE ReplaceAltFrom(unit,
                        Replace(value, NameChars(unit.alt[i]), Str(unit.min + i - 1)),
                        i + 1)

replace_alternative(unit, value) == ReplaceAltFrom(unit, value, 1)

\* must_split(value, "/", maxsplit=1): the text before the first "/" and
\* the text after it (or None: present = FALSE)
must_split(value) ==
    IF Count(value, "/") = 0
    THEN [range |-> value, present |-> FALSE, step |-> <<>>]
    ELSE LET k == CHOOSE i \in 1..Len(value) :
                      value[i] = "/" /\ \A j \in 1..(i - 1) : value[j] # "/"
         IN  [range |-> SubSeq(value, 1, k - 1), present |-> TRUE,
              step |-> SubSeq(value, k + 1, Len(value))]

\* is_int(text) of ddeutil.core for a text of the characters modelled here
is_int(value) ==
    \/ ParseInt(value).ok
    \/ Len(value) > 1 /\ value[1] = "-" /\ ParseInt(Tail(value)).ok

\* CronPart._parse_range
parse_range(unit, value) ==
    IF value = <<"*">> THEN [ok |-> TRUE, values |-> Range(unit.min, unit.max)]
    ELSE IF Count(value, "-") > 1 THEN PartError
    ELSE LET pieces == Split(value, "-")
             nums == [i \in 1..Len(pieces) |-> ParseInt(pieces[i])]
         IN  IF \E i \in 1..Len(nums) : ~nums[i].ok THEN PartError
             ELSE IF Len(nums) = 2
                  THEN IF nums[2].n < nums[1].n THEN PartError
                       ELSE [ok |-> TRUE,
                             values |-> replace_weekday(unit, Range(nums[1].n, nums[2].n))]
                  ELSE [ok |-> TRUE, values |-> replace_weekday(unit, <<nums[1].n>>)]

\* CronPart._interval: step is the text after "/", already known to be an
\* integer text when present; int(step) < 1 raises
interval(values, present, step) ==
    IF ~present THEN [ok |-> TRUE, values |-> values]
    ELSE IF ~ParseInt(step).ok \/ ParseInt(step).n < 1 THEN PartError
    ELSE LET st == ParseInt(step).n
             min_value == values[1]
         IN  [ok |-> TRUE,
              values |-> SelectSeq(values,
                             LAMBDA v : (v % st = min_value % st) \/ v = min_value)]

\* the body of the for loop of from_str for one comma-separated token
\* (other than "?"): the values it contributes
from_token(unit, token) ==
    IF Count(token, "/") > 1 THEN PartError
    ELSE LET sp == must_split(token)
             rl == parse_range(unit, sp.range)
             checked == IF rl.ok THEN out_of_range(unit, rl.values) ELSE PartError
         IN  IF ~checked.ok THEN PartError
             ELSE IF sp.present /\ (sp.step = <<>> \/ ~is_int(sp.step)) THEN PartError
             ELSE interval(checked.values, sp.present, sp.step)

RECURSIVE FromStrFromSkipping(_, _, _, _)
\* a slip: a token that cannot be read is skipped, the others are kept
FromStrFromSkipping(unit, tokens, i, acc) ==
    IF i > Len(tokens) THEN [ok |-> TRUE, values |-> acc]
    ELSE IF tokens[i] = <<"?">> THEN FromStrFromSkipping(unit, tokens, i + 1, acc)
    ELSE LET r == from_token(unit, tokens[i])
         IN  IF r.ok THEN FromStrFromSkipping(unit, tokens, i + 1, acc \o r.values)
             ELSE FromStrFromSkipping(unit, tokens, i + 1, acc)

RECURSIVE FromStrFrom(_, _, _, _)
FromStrFrom(unit, tokens, i, acc) ==
    IF i > Len(tokens) THEN [ok |-> TRUE, values |-> acc]
    ELSE IF tokens[i] = <<"?">> THEN FromStrFrom(unit, tokens, i + 1, acc)
    ELSE LET r == from_token(unit, tokens[i])
         IN  IF r.ok THEN FromStrFrom(unit, tokens, i + 1, acc \o r.values)
             ELSE PartError

\* CronPart.from_str
from_str(unit, value) ==
    FromStrFrom(unit, Split(replace_alternative(unit, Upper(value)), ","), 1, <<>>)

\* CronPart.__init__ for values: str
CronPartFromStr(unit, value) ==
    LET r == IF value = <<"?">> THEN [ok |-> TRUE, values |-> <<>>]
             ELSE from_str(unit, value)
    IN  IF r.ok THEN out_of_range(unit, SortedUnique(r.values)) ELSE PartError

(***************************************************************************)
(* CronPart serialized (CronPart.__str__ and the properties it reads).      *)
(***************************************************************************)
\* CronPart.step: None is 0 here (a step is > 1 whenever it is not None)
step(values) ==
    IF Len(values) > 2 /\ values[2] - values[1] > 1 THEN values[2] - values[1] ELSE 0

\* CronPart.is_full
is_full(unit, values) == Len(values) = unit.max - unit.min + 1

\* CronPart.is_interval
is_interval(values) ==
    /\ step(values) # 0
    /\ \A i \in 2..Len(values) : values[i] - values[i - 1] = step(values)

\* round(a / b) of Python for a >= 0, b > 0: halves go to the even integer
Round(a, b) ==
    LET q == a \div b
        r == a % b
    IN  IF 2 * r < b THEN q
        ELSE IF 2 * r > b THEN q + 1
        ELSE IF q % 2 = 0 THEN q ELSE q + 1

\* a slip: the domain minimum is not required of a full interval
is_full_interval_any_min(unit, values) ==
    /\ step(values) # 0
    /\ values[Len(values)] + step(values) > unit.max
    /\ Len(values) = Round(values[Len(values)] - values[1], step(values)) + 1

\* a slip: reaching the domain maximum is not required of a full interval
is_full_interval_any_max(unit, values) ==
    /\ step(values) # 0
    /\ values[1] = unit.min
    /\ Len(values) = Round(values[Len(values)] - values[1], step(values)) + 1

\* CronPart.is_full_interval
is_full_interval(unit, values) ==
    /\ step(values) # 0
    /\ values[1] = unit.min
    /\ values[Len(values)] + step(values) > unit.max
    /\ Len(values) = Round(values[Len(values)] - values[1], step(values)) + 1

\* the value after values[i] in the loop of CronPart.ranges (-1 past the end)
NextValue(values, i) == IF i + 1 <= Len(values) THEN values[i + 1] ELSE -1

\* a slip: no run is collected, every value is an item of its own
ranges_scalars_only(values) ==
    [k \in 1..Len(values) |-> [list |-> FALSE, a |-> values[k], b |-> values[k]]]

\* CronPart.ranges: an item is appended at every index whose value is not
\* followed by its successor (`value != next_value - 1`); start_number is the
\* first value since the last item, and is None when that is the value
\* itself.  An item is [list, a, b]: the list [a, b], or the scalar a.
ranges(values) ==
    LET ends == SelectSeq([i \in 1..Len(values) |-> i],
                          LAMBDA i : values[i] # NextValue(values, i) - 1)
        first_of(k) == IF k = 1 THEN 1 ELSE ends[k - 1] + 1
    IN  [k \in 1..Len(ends) |->
            IF first_of(k) = ends[k]
            THEN [list |-> FALSE, a |-> values[ends[k]], b |-> values[ends[k]]]
            ELSE [list |-> TRUE, a |-> values[first_of(k)], b |-> values[ends[k]]]]

\* a slip: the month-name option is not looked at
filler_weekday_only(unit, opts, value) ==
    IF opts.output_weekday_names /\ unit.name = "weekday"
    THEN NameChars(unit.alt[value - unit.min + 1])
    ELSE Str(value)

\* CronPart.filler, formatted: the alternate name or the number as text
filler(unit, opts, value) ==
    IF \/ opts.output_weekday_names /\ unit.name = "weekday"
       \/ opts.output_month_names /\ unit.name = "month"
    THEN NameChars(unit.alt[value - unit.min + 1])
    ELSE Str(value)

\* a slip: under the hash option the bounds of a partial interval are
\* written without the parentheses
PartStrHashNoParens(unit, opts, values) ==
    LET hash == IF opts.output_hashes THEN <<"H">> ELSE <<"*">>
        lo == filler(unit, opts, values[1])
        hi == filler(unit, opts, values[Len(values)])
    IN  IF is_full(unit, values) THEN hash
        ELSE IF is_interval(values)
        THEN IF is_full_interval(unit, values)
             THEN hash \o <<"/">> \o Str(step(values))
             ELSE IF opts.output_hashes
                  THEN <<"H">> \o lo \o <<"-">> \o hi \o <<"/">> \o Str(step(values))
                  ELSE lo \o <<"-">> \o hi \o <<"/">> \o Str(step(values))
        ELSE LET rs == ranges(values)
                 strings == [i \in 1..Len(rs) |->
                               IF rs[i].list
                               THEN filler(unit, opts, rs[i].a) \o <<"-">>
                                      \o filler(unit, opts, rs[i].b)
                               ELSE filler(unit, opts, rs[i].a)]
             IN  IF Len(strings) > 0 THEN Join(strings, <<",">>) ELSE <<"?">>

\* CronPart.__str__
PartStr(unit, opts, values) ==
    LET hash == IF opts.output_hashes THEN <<"H">> ELSE <<"*">>
        lo == filler(unit, opts, values[1])
        hi == filler(unit, opts, values[Len(values)])
    IN  IF is_full(unit, values) THEN hash
        ELSE IF is_interval(values)
        THEN IF is_full_interval(unit, values)
             THEN hash \o <<"/">> \o Str(step(values))
             ELSE IF opts.output_hashes
                  THEN <<"H", "(">> \o lo \o <<"-">> \o hi \o <<")", "/">> \o Str(step(values))
                  ELSE lo \o <<"-">> \o hi \o <<"/">> \o Str(step(values))
        ELSE LET rs == ranges(values)
                 strings == [i \in 1..Len(rs) |->
                               IF rs[i].list
                               THEN filler(unit, opts, rs[i].a) \o <<"-">>
                                      \o filler(unit, opts, rs[i].b)
                               ELSE filler(unit, opts, rs[i].a)]
             IN  IF Len(strings) > 0 THEN Join(strings, <<",">>) ELSE <<"?">>

(***************************************************************************)
(* CronJob built from a list of integer lists (CronJob.__init__).           *)
(* A job is [ok, err, parts]: parts is the list of the parts' value lists.  *)
(***************************************************************************)
JobError(kind) == [ok |-> FALSE, err |-> kind, parts |-> <<>>]

\* `self.day == self.dow == []` (a chained comparison): the second
\* comparison, CronPart.__eq__(dow, []), reads `[].values` and raises
\* AttributeError; it is evaluated only when the first one is true.
DayDowCheck(parts) ==
    IF parts[3] = parts[5] THEN "AttributeError" ELSE "ok"

\* the tail of CronJob.__init__: the parts are built, then day/dow validated
CronJobOfParts(built) ==
    IF \E i \in 1..Len(built) : ~built[i].ok
    THEN JobError("ValueError")
    ELSE LET parts == [i \in 1..Len(built) |-> built[i].values]
         IN  IF DayDowCheck(parts) # "ok"
             THEN JobError(DayDowCheck(parts))
             ELSE [ok |-> TRUE, err |-> "", parts |-> parts]

\* CronJob(value) / CronJobAWS(value) for value: list[list[int]]
CronJobFromList(units, value) ==
    IF Len(value) # Len(units)
    THEN JobError("ValueError")
    ELSE CronJobOfParts([i \in 1..Len(units) |-> CronPartFromList(units[i], value[i])])

\* a slip: only too few fields are refused, surplus fields are ignored
CronJobFromStrAtLeast(units, value) ==
    LET fields == SplitBlank(value)
    IN  IF Len(fields) < Len(units)
        THEN JobError("ValueError")
        ELSE CronJobOfParts([i \in 1..Len(units) |-> CronPartFromStr(units[i], fields[i])])

\* CronJob(value) / CronJobAWS(value) for value: str
CronJobFromStr(units, value) ==
    LET fields == SplitBlank(value)
    IN  IF Len(fields) # Len(units)
        THEN JobError("ValueError")
        ELSE CronJobOfParts([i \in 1..Len(units) |-> CronPartFromStr(units[i], fields[i])])

\* CronJob.__str__
JobStr(units, opts, job) ==
    Join([i \in 1..Len(job.parts) |-> PartStr(units[i], opts, job.parts[i])], <<" ">>)

\* CronJob.parts_order: reversed(parts[:3] + [parts[4], parts[3]]), that is
\* month, weekday, day, hour, minute (a sixth part is not in it)
parts_order(job) ==
    <<job.parts[4], job.parts[5], job.parts[3], job.parts[2], job.parts[1]>>

\* a slip: every part has to be less, not any
job_lt_all(a, b) ==
    \A k \in 1..5 : ListLess(parts_order(a)[k], parts_order(b)[k])

\* CronJob.__lt__: any(part < other_part for ... in zip(parts_order, ...))
job_lt(a, b) ==
    \E k \in 1..5 : ListLess(parts_order(a)[k], parts_order(b)[k])

\* CronJob.__eq__: all(part == other_part for ... in zip(parts, other.parts));
\* zip stops at the shorter of the two lists
job_eq(a, b) ==
    \A k \in 1..(IF Len(a.parts) < Len(b.parts) THEN Len(a.parts) ELSE Len(b.parts)) :
        a.parts[k] = b.parts[k]

\* CronJob.to_list
to_list(job) == job.parts

\* CronJob.minute, .hour, .day, .month, .dow (values of the part)
PartValues(job, mode) ==
    CASE mode = "minute" -> job.parts[1]
      [] mode = "hour"   -> job.parts[2]
      [] mode = "day"    -> job.parts[3]
      [] mode = "month"  -> job.parts[4]
      [] mode = "dow"    -> job.parts[5]

(***************************************************************************)
(* The calendar: datetime, timedelta and the two date helpers the runner    *)
(* calls.  A datetime is a record of its wall-clock fields; arithmetic on   *)
(* an aware datetime is wall-clock arithmetic, so the zone plays no part.   *)
(***************************************************************************)
IsLeap(y) == (y % 4 = 0 /\ y % 100 # 0) \/ y % 400 = 0

DaysInMonth(y, m) ==
    IF m = 2 THEN (IF IsLeap(y) THEN 29 ELSE 28)
    ELSE IF m \in {4, 6, 9, 11} THEN 30 ELSE 31

DaysBeforeMonth(y, m) ==
    LET cum == <<0, 31, 59, 90, 120, 151, 181, 212, 243, 273, 304, 334>>
    IN  cum[m] + (IF m > 2 /\ IsLeap(y) THEN 1 ELSE 0)

\* date.toordinal(): 0001-01-01 is day 1 (a Monday)
Ordinal(y, m, d) ==
    LET p == y - 1
    IN  p * 365 + (p \div 4) - (p \div 100) + (p \div 400) + DaysBeforeMonth(y, m) + d

\* WEEKDAYS.get(date.strftime("%a")): Sunday is 0
Weekday(dt) == Ordinal(dt.year, dt.month, dt.day) % 7

\* minutes since the epoch, and the sub-minute part in microseconds
MinuteKey(dt) == (Ordinal(dt.year, dt.month, dt.day) * 24 + dt.hour) * 60 + dt.minute
SubKey(dt) == dt.second * 1000000 + dt.microsecond

\* datetime < datetime and datetime <= datetime
Before(a, b) ==
    MinuteKey(a) < MinuteKey(b) \/ (MinuteKey(a) = MinuteKey(b) /\ SubKey(a) < SubKey(b))
NotAfter(a, b) == a = b \/ Before(a, b)

\* dt + timedelta(days=s), s = 1 or -1
PlusDay(dt, s) ==
    IF s = 1
    THEN IF dt.day < DaysInMonth(dt.year, dt.month)
         THEN [dt EXCEPT !.day = dt.day + 1]
         ELSE IF dt.month < 12
              THEN [dt EXCEPT !.month = dt.month + 1, !.day = 1]
              ELSE [dt EXCEPT !.year = dt.year + 1, !.month = 1, !.day = 1]
    ELSE IF dt.day > 1
         THEN [dt EXCEPT !.day = dt.day - 1]
         ELSE IF dt.month > 1
              THEN [dt EXCEPT !.month = dt.month - 1,
                              !.day = DaysInMonth(dt.year, dt.month - 1)]
              ELSE [dt EXCEPT !.year = dt.year - 1, !.month = 12, !.day = 31]

\* dt + timedelta(hours=s)
PlusHour(dt, s) ==
    IF dt.hour + s > 23 THEN [PlusDay(dt, 1) EXCEPT !.hour = 0]
    ELSE IF dt.hour + s < 0 THEN [PlusDay(dt, -1) EXCEPT !.hour = 23]
    ELSE [dt EXCEPT !.hour = dt.hour + s]

\* dt + timedelta(minutes=s)
PlusMinute(dt, s) ==
    IF dt.minute + s > 59 THEN [PlusHour(dt, 1) EXCEPT !.minute = 0]
    ELSE IF dt.minute + s < 0 THEN [PlusHour(dt, -1) EXCEPT !.minute = 59]
    ELSE [dt EXCEPT !.minute = dt.minute + s]

\* dt + relativedelta(months=s): the day is clipped to the new month's length
PlusMonth(dt, s) ==
    LET y == IF dt.month + s > 12 THEN dt.year + 1
             ELSE IF dt.month + s < 1 THEN dt.year - 1 ELSE dt.year
        m == IF dt.month + s > 12 THEN 1
             ELSE IF dt.month + s < 1 THEN 12 ELSE dt.month + s
        d == IF dt.day > DaysInMonth(y, m) THEN DaysInMonth(y, m) ELSE dt.day
    IN  [dt EXCEPT !.year = y, !.month = m, !.day = d]

\* ddeutil.core.dtutils.next_date(dt, mode, reverse): one unit of `mode`
\* forward, or backward when reverse
next_date(dt, mode, reverse) ==
    LET s == IF reverse THEN -1 ELSE 1
    IN  CASE mode = "month"  -> PlusMonth(dt, s)
          [] mode = "day"    -> PlusDay(dt, s)
          [] mode = "hour"   -> PlusHour(dt, s)
          [] mode = "minute" -> PlusMinute(dt, s)

\* ddeutil.core.dtutils.replace_date(dt, mode, reverse): every unit finer
\* than `mode` is set to its start, or to its end when reverse
replace_date(dt, mode, reverse) ==
    LET lo == ~reverse
        d1 == IF mode = "month"
              THEN [dt EXCEPT !.day = IF lo THEN 1 ELSE DaysInMonth(dt.year, dt.month)]
              ELSE dt
        d2 == IF mode \in {"month", "day"}
              THEN [d1 EXCEPT !.hour = IF lo THEN 0 ELSE 23]
              ELSE d1
        d3 == IF mode \in {"month", "day", "hour"}
              THEN [d2 EXCEPT !.minute = IF lo THEN 0 ELSE 59]
              ELSE d2
    IN  [d3 EXCEPT !.second = IF lo THEN 0 ELSE 59,
                   !.microsecond = IF lo THEN 0 ELSE 999999]

\* datetime.replace(second=0, microsecond=0)
Truncate(dt) == [dt EXCEPT !.second = 0, !.microsecond = 0]

(***************************************************************************)
(* CronRunner.                                                              *)
(***************************************************************************)
\* the number of passes of CronRunner.find_date
MaxPasses == 25

Modes == <<"month", "day", "hour", "minute">>

\* getattr(self.date, mode)
DateField(dt, mode) ==
    CASE mode = "year"   -> dt.year
      [] mode = "month"  -> dt.month
      [] mode = "day"    -> dt.day
      [] mode = "hour"   -> dt.hour
      [] mode = "minute" -> dt.minute

\* the `switch` table of __shift_date: the parent unit of each mode
Switch(mode) ==
    CASE mode = "month"  -> "year"
      [] mode = "day"    -> "month"
      [] mode = "hour"   -> "day"
      [] mode = "minute" -> "hour"

\* the `_addition` lambda: the weekday filter, applied at the day level only
Addition(job, dt, mode) ==
    IF mode = "day" THEN ~Contains(PartValues(job, "dow"), Weekday(dt)) ELSE FALSE

\* the condition of the while loop of __shift_date
ShiftCond(job, dt, mode) ==
    ~Contains(PartValues(job, mode), DateField(dt, mode)) \/ Addition(job, dt, mode)

\* the value __shift_date returns when the parent unit changed
ParentChanged(mode) == mode # "month"

\* a slip: the step does not move the cursor
ShiftStepStall(dt, mode, reverse) == dt

\* a slip: the finer units are not reset after the step
ShiftStepNoReplace(dt, mode, reverse) == next_date(dt, mode, reverse)

\* the body of the while loop of __shift_date: one unit further, then the
\* finer units reset
ShiftStep(dt, mode, reverse) ==
    replace_date(next_date(dt, mode, reverse), mode, reverse)

RECURSIVE ShiftLoop(_, _, _, _, _)
\* the while loop of __shift_date
ShiftLoop(job, dt, mode, reverse, current_value) ==
    IF ShiftCond(job, dt, mode)
    THEN LET nd == ShiftStep(dt, mode, reverse)
         IN  IF current_value # DateField(nd, Switch(mode))
             THEN [date |-> nd, shifted |-> ParentChanged(mode)]
             ELSE ShiftLoop(job, nd, mode, reverse, current_value)
    ELSE [date |-> dt, shifted |-> FALSE]

\* CronRunner.__shift_date: the cursor it leaves and the flag it returns
shift_date(job, dt, mode, reverse) ==
    ShiftLoop(job, dt, mode, reverse, DateField(dt, Switch(mode)))

RECURSIVE FindPass(_, _, _, _)
\* all(not self.__shift_date(mode, reverse) for mode in (...)): the levels in
\* order, stopping at the first one that returns True
FindPass(job, dt, reverse, i) ==
    IF i > Len(Modes)
    THEN [date |-> dt, shifted |-> FALSE]
    ELSE LET r == shift_date(job, dt, Modes[i], reverse)
         IN  IF r.shifted THEN r ELSE FindPass(job, r.date, reverse, i + 1)

RECURSIVE FindLoop(_, _, _, _)
\* for _ in range(25): ... ; raise RecursionError
FindLoop(job, dt, reverse, n) ==
    IF n = 0
    THEN [ok |-> FALSE, date |-> dt]
    ELSE LET r == FindPass(job, dt, reverse, 1)
         IN  IF r.shifted
             THEN FindLoop(job, r.date, reverse, n - 1)
             ELSE [ok |-> TRUE, date |-> r.date]

\* CronRunner.find_date: ok = FALSE stands for the RecursionError; `date` is
\* the cursor the call leaves (the instant returned is Truncate(date))
find_date(job, dt, reverse) == FindLoop(job, dt, reverse, MaxPasses)

\* CronRunner.__init__: the cursor after the round-up of a start with seconds
InitDate(dt) == IF dt.second > 0 THEN PlusMinute(dt, 1) ELSE dt

\* a slip: the cursor is not advanced in the advancing state
NextOriginNoStep(dt, flag) == dt

\* CronRunner.next: the cursor the search starts from
NextOrigin(dt, flag) == IF flag THEN dt ELSE PlusMinute(dt, 1)

\* a slip: the cursor is not stepped back
PrevOriginNoStep(dt) == dt

\* CronRunner.prev: the cursor the search starts from
PrevOrigin(dt) == PlusMinute(dt, -1)

\* a slip: the flag is not restored
ResetStateKeepFlag(start) == [date |-> start, reset_flag |-> FALSE]

\* CronRunner.reset: the cursor and the flag it restores
ResetState(start) == [date |-> start, reset_flag |-> TRUE]

(***************************************************************************)
(* The runner's inputs: expressions (as lists of integer lists, the second  *)
(* form CronJob accepts) and start instants.                                *)
(***************************************************************************)
Dt(y, mo, d, h, mi, s, us) ==
    [year |-> y, month |-> mo, day |-> d, hour |-> h, minute |-> mi,
     second |-> s, microsecond |-> us]

AllMinutes == Range(0, 59)
AllHours == Range(0, 23)
AllDays == Range(1, 31)
AllMonths == Range(1, 12)
AllDows == Range(0, 6)

CronInputs ==
    { [units |-> CRON_UNITS,
       value |-> <<(<<30, 0, 30>>), <<0, 12>>, <<23>>, <<1, 4, 7, 10>>, AllDows>>],
      [units |-> CRON_UNITS,
       value |-> <<(<<0>>), <<0>>, <<1>>, <<3>>, AllDows>>],
      [units |-> CRON_UNITS,
       value |-> <<(<<0>>), <<0>>, <<31>>, <<2>>, AllDows>>],
      [units |-> CRON_UNITS,
       value |-> <<(<<0>>), <<18>>, <<>>, AllMonths, <<1, 2, 3, 4, 5>>>>],
      [units |-> CRON_UNITS,
       value |-> <<(<<0>>), <<8>>, <<1>>, AllMonths, <<>>>>],
      [units |-> CRON_UNITS,
       value |-> <<AllMinutes, AllHours, AllDays, AllMonths, AllDows>>],
      [units |-> CRON_UNITS,
       value |-> <<(<<0>>), <<0>>, <<13>>, AllMonths, <<5>>>>],
      [units |-> CRON_UNITS,
       value |-> <<(<<15, 45>>), <<6, 22>>, <<29, 30>>, <<2, 12>>, <<7, 1, 2, 3, 4, 5, 6>>>>],
      [units |-> CRON_UNITS,
       value |-> <<(<<0>>), <<0>>, <<1, 2, 3>>, AllMonths, <<1, 2, 3>>>>],
      [units |-> CRON_UNITS,
       value |-> <<(<<0>>), <<0>>, <<>>, AllMonths, <<>>>>],
      [units |-> CRON_UNITS,
       value |-> <<(<<60>>), <<0>>, <<1>>, AllMonths, AllDows>>],
      [units |-> CRON_UNITS_AWS,
       value |-> <<(<<0>>), <<0>>, <<1>>, <<1, 6>>, AllDows, <<2030>>>>] }

\* the expressions whose construction succeeds
Crons ==
    { CronJobFromList(c.units, c.value) : c \in
        { c \in CronInputs : CronJobFromList(c.units, c.value).ok } }

Starts ==
    { Dt(2024, 1, 1, 12, 0, 0, 0),
      Dt(2024, 1, 1, 12, 0, 30, 0),
      Dt(2024, 1, 1, 12, 0, 0, 500),
      Dt(2023, 12, 31, 23, 59, 30, 250),
      Dt(2024, 1, 23, 0, 0, 0, 0),
      Dt(2024, 4, 15, 0, 0, 0, 0),
      Dt(2024, 2, 29, 6, 15, 0, 0),
      Dt(2024, 9, 13, 0, 0, 0, 0) }

\* the starts the expressions with an empty day or weekday set are run from
\* (every search of theirs runs all the passes)
FewStarts == { Dt(2024, 1, 1, 12, 0, 30, 0), Dt(2024, 4, 15, 0, 0, 0, 0) }

\* the runners constructed: CronRunner(cron, date)
Runners ==
    { r \in Crons \X Starts :
        (r[1].parts[3] = <<>> \/ r[1].parts[5] = <<>>) => r[2] \in FewStarts }

InYears(dt) == dt.year >= 2024 - YearSpan /\ dt.year <= 2024 + YearSpan

NoDate == Dt(0, 0, 0, 0, 0, 0, 0)

NoText == <<>>

NoJob == [ok |-> FALSE, err |-> "none", parts |-> <<>>]

NoFirst == [text |-> NoText, job |-> NoJob]

NoInput == <<>>

NoCmp == [lt |-> FALSE, gt |-> FALSE, eq |-> FALSE, ne |-> FALSE]

NoSearch == [reverse |-> FALSE, passes |-> 0, level |-> 0, current_value |-> 0,
             steps |-> 0]

NoRunners == <<>>

NoLog == <<>>

DefaultOptions ==
    [output_weekday_names |-> FALSE, output_month_names |-> FALSE,
     output_hashes |-> FALSE]

(***************************************************************************)
(* The runner as a state machine.                                           *)
(***************************************************************************)
Init ==
    /\ \E r \in Runners : cron = r[1] /\ true_start = r[2]
    /\ date = InitDate(true_start)
    /\ start_date = InitDate(true_start)
    /\ reset_flag = TRUE
    /\ calls = 0
    /\ last = [op |-> "init", ok |-> TRUE, result |-> NoDate, before |-> NoDate,
               origin |-> NoDate, flag |-> TRUE,
               pop |-> "none", pok |-> TRUE, presult |-> NoDate]
    /\ text = NoText
    /\ option = DefaultOptions
    /\ dialect = IF Len(cron.parts) = 6 THEN "aws" ELSE "std"
    /\ pc = "run"
    /\ first = NoFirst
    /\ input = NoInput
    /\ other = NoJob
    /\ cmp = NoCmp
    /\ search = NoSearch
    /\ runners = NoRunners
    /\ log = NoLog

\* the record of a next/prev call
Called(op, r, origin) ==
    [op |-> op, ok |-> r.ok,
     result |-> IF r.ok THEN Truncate(r.date) ELSE NoDate,
     before |-> date, origin |-> origin, flag |-> reset_flag,
     pop |-> last.op, pok |-> last.ok, presult |-> last.result]

\* CronRunner.next (the property): returns an instant or raises
next ==
    /\ calls < MaxCalls
    /\ LET origin == NextOrigin(date, reset_flag)
           r == find_date(cron, origin, FALSE)
       IN  /\ InYears(r.date)
           /\ date' = r.date
           /\ reset_flag' = FALSE
           /\ last' = Called("next", r, origin)
    /\ calls' = calls + 1
    /\ UNCHANGED <<cron, true_start, start_date, text, option, dialect, pc, first,
                   input, other, cmp,
                   search, runners, log>>

\* CronRunner.prev (the property): returns an instant or raises
prev ==
    /\ calls < MaxCalls
    /\ LET origin == PrevOrigin(date)
           r == find_date(cron, origin, TRUE)
       IN  /\ InYears(r.date)
           /\ date' = r.date
           /\ reset_flag' = FALSE
           /\ last' = Called("prev", r, origin)
    /\ calls' = calls + 1
    /\ UNCHANGED <<cron, true_start, start_date, text, option, dialect, pc, first,
                   input, other, cmp,
                   search, runners, log>>

\* CronRunner.reset
reset ==
    /\ calls < MaxCalls
    /\ date' = ResetState(start_date).date
    /\ reset_flag' = ResetState(start_date).reset_flag
    /\ last' = [op |-> "reset", ok |-> TRUE, result |-> NoDate, before |-> date,
                origin |-> NoDate, flag |-> reset_flag,
                pop |-> last.op, pok |-> last.ok, presult |-> last.result]
    /\ calls' = calls + 1
    /\ UNCHANGED <<cron, true_start, start_date, text, option, dialect, pc, first,
                   input, other, cmp,
                   search, runners, log>>

Next == next \/ prev \/ reset

Spec == Init /\ [][Next]_vars

(***************************************************************************)
(* Texts handed to CronJob: one field varies over the sample field texts of *)
(* its unit, the other fields are "*".                                      *)
(***************************************************************************)
Units(d) == IF d = "aws" THEN CRON_UNITS_AWS ELSE CRON_UNITS

Rng(a, b) == Str(a) \o <<"-">> \o Str(b)

Stepped(r, st) == r \o <<"/">> \o Str(st)

Listed(a, b) == a \o <<",">> \o b

\* the sample texts of one field of the given unit
FieldTexts(unit) ==
    LET lows == {unit.min, unit.min + 1, unit.max - MaxWidth, unit.max}
        steps == (1..MaxStep) \union {(unit.max - unit.min + 1) \div 2}
        singles == {Str(a) : a \in lows \union {unit.max + 1}}
        spans == {Rng(a, a + w) : a \in lows, w \in 1..MaxWidth}
        stars == {Stepped(<<"*">>, st) : st \in steps \union {0}}
        stepped == {Stepped(Rng(a, a + MaxWidth), st) : a \in lows, st \in steps}
                     \union {Stepped(Rng(unit.min + 1, unit.max), st) : st \in steps}
                     \union {Stepped(Str(unit.min), st) : st \in steps}
        lists == {Listed(Str(unit.max), Str(unit.min)),
                  Listed(Stepped(<<"*">>, MaxStep + 1), Rng(unit.min + MaxWidth, unit.min + MaxWidth + 1)),
                  Listed(Rng(unit.min, unit.min + 1), Rng(unit.min + 1, unit.min + MaxWidth)),
                  Listed(Str(unit.min), Listed(Str(unit.min + 2), Str(unit.min + 4))),
                  Listed(<<"?">>, Str(unit.min)),
                  Listed(Str(unit.min), <<>>),
                  Listed(Str(unit.min), Rng(unit.min + 2, unit.min + 1)),
                  Listed(Stepped(<<"*">>, 0), Str(unit.min + 1)),
                  Listed(Str(unit.max), <<"1", "/", "2", "/", "3">>),
                  Listed(Stepped(Str(unit.min), 2), Str(unit.min + 1))}
        odd == {<<"*">>, <<"?">>, <<>>, <<"*", "/">>, <<"x">>, <<"H">>,
                <<"1", "/", "2", "/", "3">>, <<"3", "-", "1">>, <<"1", "-", "2", "-", "3">>,
                Rng(unit.min + 2, unit.min + 1), <<"*", "/", "-", "1">>,
                <<"*", "/", "x">>, Stepped(Str(unit.min), 15), Stepped(Str(unit.min), 10),
                Stepped(Str(unit.min + 1), 5)}
        names == IF unit.alt = <<>> THEN {}
                 ELSE {NameChars(unit.alt[1]),
                       <<"m", "o", "n">>,
                       NameChars(unit.alt[2]) \o <<"-">> \o NameChars(unit.alt[5]),
                       Stepped(NameChars(unit.alt[2]) \o <<"-">> \o NameChars(unit.alt[6]), 2),
                       Listed(NameChars(unit.alt[7]), NameChars(unit.alt[1])),
                       Listed(NameChars(unit.alt[3]), Str(unit.min + 1))}
        sunday == IF unit.name # "weekday" THEN {}
                  ELSE {Rng(5, 7), Rng(0, 7), Rng(7, 7), Listed(Str(7), Str(1)),
                        Listed(Str(7), Str(0)), Stepped(Str(7), 2),
                        Stepped(Rng(5, 7), 2), Stepped(Rng(1, 7), 2),
                        Stepped(Rng(1, 7), 3), Stepped(Rng(4, 7), 2),
                        Stepped(Rng(0, 7), 2), Rng(7, 8)}
    IN  singles \union spans \union stars \union stepped \union lists \union odd
          \union names \union sunday

\* the expression text with field text f at position p and "*" elsewhere
ExprText(n, p, f) == Join([i \in 1..n |-> IF i = p THEN f ELSE <<"*">>], <<" ">>)

\* whole expressions: those of the repository's tests and docstrings, and
\* texts with a wrong number of fields
WholeTexts(d) ==
    LET tail == IF d = "aws" THEN <<" ", "*">> ELSE <<>>
    IN  { Join(<<Stepped(<<"*">>, 5) \o <<",", "3", ",", "6">>, Stepped(Rng(9, 17), 2),
                 <<"*">>, Rng(1, 3), Rng(1, 5)>>, <<" ">>) \o tail,
          Join(<<Stepped(<<"*">>, 5), Stepped(Rng(9, 17), 2), <<"*">>,
                 Listed(Rng(1, 3), <<"5">>), Rng(1, 5)>>, <<" ">>) \o tail,
          Join(<<(<<"0">>), Stepped(<<"*">>, 12), <<"1">>, <<"?">>, <<"0">>>>, <<" ">>) \o tail,
          Join(<<(<<"0">>), <<"1", "8">>, <<"?">>, <<"*">>, <<"M", "O", "N", "-", "F", "R", "I">>>>,
               <<" ">>) \o tail,
          Join(<<(<<"*">>), <<"*">>, <<"?">>, <<"*">>, <<"?">>>>, <<" ">>) \o tail,
          Join(<<(<<"*">>), <<"*">>, Rng(1, 5), <<"*">>, Rng(1, 5)>>, <<" ">>) \o tail,
          <<" ">> \o ExprText(5, 1, <<"5">>) \o <<" ", " ">> \o tail,
          ExprText(4, 1, <<"*">>),
          ExprText(7, 1, <<"*">>) }

Texts(d) ==
    WholeTexts(d) \union
    UNION { { ExprText(Len(Units(d)), p, f) : f \in FieldTexts(Units(d)[p]) } :
              p \in 1..Len(Units(d)) }

\* the sample lists of one field of the given unit
FieldLists(unit) ==
    { <<unit.min>>, <<unit.max>>, <<unit.max + 1>>, <<unit.min - 1>>,
      <<unit.max, unit.min, unit.max>>,
      <<unit.min, unit.max + 1, unit.min + 1>>,
      <<unit.min + 1, unit.min - 1, unit.max>>,
      <<unit.min + 4, unit.min + 2, unit.min>>,
      <<unit.min + 1, unit.min + 2, unit.min + 4, unit.min + 5, unit.min + 6>>,
      <<>>, <<7>>, <<7, 0>>, <<5, 6, 7>>, <<7, 1, 3>>, <<7, 8>> }

\* the list with field list f at position p and the whole domain elsewhere
ExprList(units, p, f) ==
    [i \in 1..Len(units) |-> IF i = p THEN f ELSE Range(units[i].min, units[i].max)]

\* the lists handed to CronJob: those the runners are built from, one field
\* varying, and a list with a wrong number of fields
Lists(d) ==
    { c.value : c \in {c \in CronInputs : c.units = Units(d)} }
      \union UNION { { ExprList(Units(d), p, f) : f \in FieldLists(Units(d)[p]) } :
                      p \in 1..Len(Units(d)) }
      \union { <<AllMinutes, AllHours, AllDays, AllMonths>> }

OptionSets ==
    [output_weekday_names : BOOLEAN, output_month_names : BOOLEAN,
     output_hashes : BOOLEAN]

(***************************************************************************)
(* Parsing and serializing as a state machine: the text is parsed by        *)
(* CronJob(text, option=...), the job is written by str(job), and the       *)
(* written text is parsed again.                                            *)
(***************************************************************************)
InitParse ==
    /\ dialect \in {"std", "aws"}
    /\ \/ pc = "text" /\ text \in Texts(dialect) /\ input = NoInput
       \/ pc = "list" /\ text = NoText /\ input \in Lists(dialect)
    /\ option \in OptionSets
    /\ other = NoJob
    /\ cmp = NoCmp
    /\ search = NoSearch
    /\ runners = NoRunners
    /\ log = NoLog
    /\ cron = NoJob
    /\ first = NoFirst
    /\ true_start = NoDate
    /\ date = NoDate
    /\ start_date = NoDate
    /\ reset_flag = TRUE
    /\ calls = 0
    /\ last = [op |-> "none", ok |-> TRUE, result |-> NoDate, before |-> NoDate,
               origin |-> NoDate, flag |-> TRUE,
               pop |-> "none", pok |-> TRUE, presult |-> NoDate]

\* CronJob(text, option=option): the first parse, or the parse of str(job)
Parse ==
    /\ pc \in {"text", "printed"}
    /\ cron' = CronJobFromStr(Units(dialect), text)
    /\ first' = IF pc = "text" THEN [text |-> text, job |-> cron'] ELSE first
    /\ pc' = IF pc = "text"
             THEN (IF cron'.ok THEN "parsed" ELSE "failed")
             ELSE (IF cron'.ok THEN "reparsed" ELSE "refused")
    /\ UNCHANGED <<true_start, date, start_date, reset_flag, calls, last,
                   text, option, dialect, input, other, cmp,
                   search, runners, log>>

\* CronJob(value, option=option) for value: list[list[int]]
Build ==
    /\ pc = "list"
    /\ cron' = CronJobFromList(Units(dialect), input)
    /\ first' = [text |-> NoText, job |-> cron']
    /\ pc' = IF cron'.ok THEN "parsed" ELSE "failed"
    /\ UNCHANGED <<true_start, date, start_date, reset_flag, calls, last,
                   text, option, dialect, input, other, cmp,
                   search, runners, log>>

\* str(job)
Serialize ==
    /\ pc = "parsed"
    /\ text' = JobStr(Units(dialect), option, cron)
    /\ pc' = "printed"
    /\ UNCHANGED <<cron, true_start, date, start_date, reset_flag, calls, last,
                   option, dialect, first, input, other, cmp,
                   search, runners, log>>

NextParse == Parse \/ Build \/ Serialize

SpecParse == InitParse /\ [][NextParse]_vars

(***************************************************************************)
(* Comparing two expressions as a state machine: both are constructed       *)
(* (from a text or from a list), then compared with <, == and !=.           *)
(***************************************************************************)
\* the text of the given field texts
Fields(fields) == Join(fields, <<" ">>)

Star == <<"*">>

\* the inputs compared: [dialect, kind, value]
CompareInputs ==
    { [dialect |-> "std", kind |-> "str",
       value |-> Fields(<<Stepped(Star, 5), Star, Star, Star, Star>>)],
      [dialect |-> "std", kind |-> "str",
       value |-> Fields(<<Listed(Stepped(Star, 5), Listed(Str(3), Str(6))),
                          Stepped(Rng(9, 17), 2), Star, Rng(1, 3), Rng(1, 5)>>)],
      [dialect |-> "std", kind |-> "str",
       value |-> Fields(<<Star, Star, Star, Star, Star>>)],
      [dialect |-> "std", kind |-> "str",
       value |-> Fields(<<Str(0), Str(0), Str(1), Str(1), Star>>)],
      [dialect |-> "std", kind |-> "list",
       value |-> <<(<<0>>), <<0>>, <<1>>, <<1>>, <<7, 1, 2, 3, 4, 5, 6>>>>],
      [dialect |-> "std", kind |-> "str",
       value |-> Fields(<<Str(30), Str(0), Str(1), Str(1), Star>>)],
      [dialect |-> "std", kind |-> "str",
       value |-> Fields(<<Str(0), Str(0), Str(1), Str(2), Star>>)],
      [dialect |-> "std", kind |-> "str",
       value |-> Fields(<<Str(0), Str(5), Star, Star, Star>>)],
      [dialect |-> "std", kind |-> "str",
       value |-> Fields(<<Str(5), Str(0), Star, Star, Star>>)],
      [dialect |-> "std", kind |-> "str",
       value |-> Fields(<<Str(0), Str(0), <<"?">>, Star, Rng(1, 5)>>)],
      [dialect |-> "std", kind |-> "str",
       value |-> Fields(<<Star, Star, <<"?">>, Star, <<"?">>>>)],
      [dialect |-> "aws", kind |-> "str",
       value |-> Fields(<<Str(0), Str(0), Str(1), Str(1), Star, Str(2030)>>)],
      [dialect |-> "aws", kind |-> "str",
       value |-> Fields(<<Str(0), Str(0), Str(1), Str(1), Star, Str(2031)>>)],
      [dialect |-> "aws", kind |-> "str",
       value |-> Fields(<<Str(0), Str(0), Str(1), Str(1), Star, Rng(2030, 2031)>>)],
      [dialect |-> "aws", kind |-> "list",
       value |-> <<(<<0>>), <<0>>, <<1>>, <<1>>, AllDows, <<2031, 2030>>>>],
      [dialect |-> "aws", kind |-> "str",
       value |-> Fields(<<Str(0), Str(0), Str(1), Str(2), Star, Str(2030)>>)],
      [dialect |-> "aws", kind |-> "str",
       value |-> Fields(<<Stepped(Star, 5), Star, Star, Star, Star, Star>>)],
      [dialect |-> "aws", kind |-> "str",
       value |-> Fields(<<Star, Star, Star, Star, Star, Star>>)] }

\* CronJob(value) / CronJobAWS(value) for one of the inputs
Construct(in) ==
    IF in.kind = "str"
    THEN CronJobFromStr(Units(in.dialect), in.value)
    ELSE CronJobFromList(Units(in.dialect), in.value)

InitCompare ==
    /\ input \in CompareInputs \X CompareInputs
    /\ option \in OptionSets
    /\ dialect = input[1].dialect
    /\ pc = "inputs"
    /\ cron = NoJob
    /\ other = NoJob
    /\ cmp = NoCmp
    /\ search = NoSearch
    /\ runners = NoRunners
    /\ log = NoLog
    /\ text = NoText
    /\ first = NoFirst
    /\ true_start = NoDate
    /\ date = NoDate
    /\ start_date = NoDate
    /\ reset_flag = TRUE
    /\ calls = 0
    /\ last = [op |-> "none", ok |-> TRUE, result |-> NoDate, before |-> NoDate,
               origin |-> NoDate, flag |-> TRUE,
               pop |-> "none", pok |-> TRUE, presult |-> NoDate]

\* the two constructions: cron with the options drawn, other with the
\* default options
BuildBoth ==
    /\ pc = "inputs"
    /\ cron' = Construct(input[1])
    /\ other' = Construct(input[2])
    /\ pc' = IF cron'.ok /\ other'.ok THEN "built" ELSE "rejected"
    /\ UNCHANGED <<true_start, date, start_date, reset_flag, calls, last,
                   text, option, dialect, first, input, cmp,
                   search, runners, log>>

\* cron < other, other < cron, cron == other, cron != other
Compare ==
    /\ pc = "built"
    /\ cmp' = [lt |-> job_lt(cron, other), gt |-> job_lt(other, cron),
               eq |-> job_eq(cron, other), ne |-> ~job_eq(cron, other)]
    /\ pc' = "compared"
    /\ UNCHANGED <<cron, true_start, date, start_date, reset_flag, calls, last,
                   text, option, dialect, first, input, other,
                   search, runners, log>>

NextCompare == BuildBoth \/ Compare

SpecCompare == InitCompare /\ [][NextCompare]_vars

(***************************************************************************)
(* Properties of the runner.                                                *)
(***************************************************************************)
Returned == last.op \in {"next", "prev"} /\ last.ok

\* the instant matches every field of a 5-field expression
Matches(job, t) ==
    /\ Contains(PartValues(job, "minute"), t.minute)
    /\ Contains(PartValues(job, "hour"), t.hour)
    /\ Contains(PartValues(job, "day"), t.day)
    /\ Contains(PartValues(job, "month"), t.month)
    /\ Contains(PartValues(job, "dow"), Weekday(t))

\* C1: every instant next or prev returns matches the expression: minute,
\* hour, day-of-month, month and weekday are in the fields' value sets.
C1_ReturnedMatches == Returned => Matches(cron, last.result)

\* no day of the day-of-month set exists in any month of the month set
NeverTogether(job) ==
    /\ PartValues(job, "day") # <<>>
    /\ PartValues(job, "month") # <<>>
    /\ \A m \in SeqSet(PartValues(job, "month")) :
         \A d \in SeqSet(PartValues(job, "day")) : d > DaysInMonth(2024, m)

\* C2: for an expression whose day-of-month and month sets never hold
\* together, next and prev fail with NonConvergence: no instant is returned.
C2_ImpossibleFails ==
    (NeverTogether(cron) /\ last.op \in {"next", "prev"}) => ~last.ok

\* exactly one of day-of-month and day-of-week is empty
OneEmpty(job) ==
    (PartValues(job, "day") = <<>>) # (PartValues(job, "dow") = <<>>)

\* the instant matches minute, hour, month and the non-empty sibling
MatchesSibling(job, t) ==
    /\ Contains(PartValues(job, "minute"), t.minute)
    /\ Contains(PartValues(job, "hour"), t.hour)
    /\ Contains(PartValues(job, "month"), t.month)
    /\ (PartValues(job, "day") = <<>> \/ Contains(PartValues(job, "day"), t.day))
    /\ (PartValues(job, "dow") = <<>> \/ Contains(PartValues(job, "dow"), Weekday(t)))

\* C3: with exactly one of day-of-month and day-of-week empty, next and prev
\* return an instant that satisfies minute, hour, month and the sibling
\* field; they do not fail with NonConvergence.
C3_EmptyIsUnconstrained ==
    (OneEmpty(cron) /\ last.op \in {"next", "prev"}) =>
        (last.ok /\ MatchesSibling(cron, last.result))

\* C4: next is inclusive in the initialized state only: a matching start is
\* returned by the first next; in the advancing state next returns an
\* instant later than the cursor the previous call left, and successive
\* next results strictly increase.
C4_NextInclusiveThenStrict ==
    (last.op = "next" /\ last.ok) =>
        /\ (last.flag /\ Matches(cron, Truncate(last.before)))
               => last.result = Truncate(last.before)
        /\ ~last.flag => Before(last.before, last.result)
        /\ (last.pop = "next" /\ last.pok) => Before(last.presult, last.result)

C4_Witness ==
    /\ last.op = "next" /\ last.ok /\ ~last.flag
    /\ last.pop = "next" /\ last.pok
    /\ calls = 2
    /\ last.presult = Truncate(start_date)

\* C5: prev steps back first in both states: the instant it returns is at
\* least one minute earlier than the cursor before the call (so never the
\* start instant), and successive prev results strictly decrease.
C5_PrevStepsBackFirst ==
    (last.op = "prev" /\ last.ok) =>
        /\ MinuteKey(last.result) + 1 <= MinuteKey(last.before)
        /\ last.flag => Before(last.result, Truncate(start_date))
        /\ (last.pop = "prev" /\ last.pok) => Before(last.result, last.presult)

C5_Witness ==
    /\ last.op = "prev" /\ last.ok /\ ~last.flag
    /\ last.pop = "prev" /\ last.pok
    /\ calls = 2
    /\ Matches(cron, Truncate(start_date))

\* the first and last minute (as minute keys) of a month, a day, an hour
MonthLo(y, mo) == Ordinal(y, mo, 1) * 1440
MonthHi(y, mo) == Ordinal(y, mo, DaysInMonth(y, mo)) * 1440 + 1439
DayLo(y, mo, d) == Ordinal(y, mo, d) * 1440
HourLo(y, mo, d, h) == Ordinal(y, mo, d) * 1440 + h * 60

\* no minute with key in lo..hi, in the years y1..y2, matches every field
NoMatchIn(job, lo, hi, y1, y2) ==
    \A y \in y1..y2 : \A mo \in SeqSet(PartValues(job, "month")) :
        (MonthHi(y, mo) >= lo /\ MonthLo(y, mo) <= hi) =>
        \A d \in SeqSet(PartValues(job, "day")) :
            (/\ d <= DaysInMonth(y, mo)
             /\ DayLo(y, mo, d) + 1439 >= lo /\ DayLo(y, mo, d) <= hi
             /\ Contains(PartValues(job, "dow"), Ordinal(y, mo, d) % 7)) =>
            \A h \in SeqSet(PartValues(job, "hour")) :
                (HourLo(y, mo, d, h) + 59 >= lo /\ HourLo(y, mo, d, h) <= hi) =>
                \A mi \in SeqSet(PartValues(job, "minute")) :
                    ~(HourLo(y, mo, d, h) + mi >= lo /\ HourLo(y, mo, d, h) + mi <= hi)

\* the first minute-aligned instant not before dt, as a minute key
CeilKey(dt) == MinuteKey(dt) + (IF SubKey(dt) > 0 THEN 1 ELSE 0)

\* C6: the search never skips a match: when next (prev) returns t from the
\* search origin c, no minute-aligned instant matching all fields lies in
\* [c, t) (in (t, c]).
C6_NoMatchSkipped ==
    /\ (last.op = "next" /\ last.ok) =>
           NoMatchIn(cron, CeilKey(last.origin), MinuteKey(last.result) - 1,
                     last.origin.year, last.result.year)
    /\ (last.op = "prev" /\ last.ok) =>
           NoMatchIn(cron, MinuteKey(last.result) + 1, MinuteKey(last.origin),
                     last.result.year, last.origin.year)

C6_Witness ==
    /\ Returned
    /\ Matches(cron, last.result)
    /\ last.result.month # last.origin.month
    /\ last.result.hour # last.origin.hour

\* C7: reset restores the initial state: the cursor and the flag are those
\* of a freshly constructed runner, so next and prev give what they give on
\* a fresh runner; next and prev never change the stored start instant.
C7_ResetRestores ==
    /\ start_date = InitDate(true_start)
    /\ last.op = "reset" =>
          /\ date = InitDate(true_start)
          /\ reset_flag = TRUE
          /\ find_date(cron, NextOrigin(date, reset_flag), FALSE)
               = find_date(cron, NextOrigin(InitDate(true_start), TRUE), FALSE)
          /\ find_date(cron, PrevOrigin(date), TRUE)
               = find_date(cron, PrevOrigin(InitDate(true_start)), TRUE)

C7_Witness ==
    /\ last.op = "reset"
    /\ last.pop \in {"next", "prev"}
    /\ ~last.flag
    /\ last.before # start_date

\* C8: the first instant next returns after construction is never earlier
\* than the true (untruncated) start instant.
C8_FirstNextNotBeforeStart ==
    (last.op = "next" /\ last.pop = "init" /\ last.ok)
        => NotAfter(true_start, last.result)

\* C9: for a 6-field expression every instant next or prev returns has its
\* year in the expression's year value set.
C9_YearMatches ==
    (Len(cron.parts) = 6 /\ Returned) => Contains(cron.parts[6], last.result.year)

(***************************************************************************)
(* Properties of parsing and serializing.                                   *)
(***************************************************************************)
\* the written text has been handed back to the parser
Reparsed == pc \in {"reparsed", "refused"}

\* C10 as stated: for every accepted text, the serialized expression is
\* accepted by the parser and parses to the same value sets, field by field
\* (under every setting of the options).
C10_RoundTripAnyOption ==
    Reparsed => (cron.ok /\ cron.parts = first.job.parts)

\* C10 amended: for every accepted text, with the hash option off, the
\* serialized expression is accepted by the parser and parses to the same
\* value sets, field by field.
C10_RoundTrip ==
    (Reparsed /\ ~option.output_hashes) => (cron.ok /\ cron.parts = first.job.parts)

C10_Witness ==
    /\ pc = "reparsed"
    /\ ~option.output_hashes /\ option.output_weekday_names
    /\ text # first.text
    /\ \E i \in 1..Len(text) : text[i] = "/"
    /\ \E i \in 1..Len(text) : text[i] = "F"

(***************************************************************************)
(* Properties of construction.                                              *)
(***************************************************************************)
\* a construction (from text or from a list) has been attempted
Constructed == pc \in {"parsed", "failed", "printed", "reparsed", "refused"}

\* the input of the first construction was a text / a list
FromText == Constructed /\ input = NoInput
FromList == Constructed /\ input # NoInput

\* the fields of the first text, when it has as many fields as the dialect
TextFields == SplitBlank(first.text)

StrictlyAscending(values) ==
    \A i \in 1..(Len(values) - 1) : values[i] < values[i + 1]

InDomain(unit, values) ==
    \A i \in 1..Len(values) : values[i] >= unit.min /\ values[i] <= unit.max

\* n is outside the unit's domain (7 in the weekday field writes Sunday)
OutOfDomain(unit, n) ==
    (n < unit.min \/ n > unit.max) /\ ~(unit.name = "weekday" /\ n = 7)

\* the numbers written at value positions of a field text: the scalars and
\* the range bounds of its comma-separated tokens (steps are not values)
WrittenNumbers(field) ==
    LET tokens == Split(field, ",")
        bounds(k) == Split(must_split(tokens[k]).range, "-")
    IN  UNION { { ParseInt(bounds(k)[j]).n :
                    j \in {j \in 1..Len(bounds(k)) : ParseInt(bounds(k)[j]).ok} } :
                k \in 1..Len(tokens) }

\* the first input writes a number outside the domain of its field
CarriesOutOfDomain ==
    LET units == Units(dialect)
    IN  \/ /\ FromList /\ Len(input) = Len(units)
           /\ \E i \in 1..Len(units) : \E k \in 1..Len(input[i]) :
                 OutOfDomain(units[i], input[i][k])
        \/ /\ FromText /\ Len(TextFields) = Len(units)
           /\ \E i \in 1..Len(units) : \E n \in WrittenNumbers(TextFields[i]) :
                 OutOfDomain(units[i], n)

\* C11: every value list a construction returns (from text or from a list,
\* in every field and dialect) is strictly ascending, hence without
\* duplicates, and within [unit.min, unit.max]; an input that writes an
\* out-of-domain number is refused, never clipped or dropped.
C11_DomainInvariant ==
    /\ cron.ok =>
          \A i \in 1..Len(cron.parts) :
              /\ StrictlyAscending(cron.parts[i])
              /\ InDomain(Units(dialect)[i], cron.parts[i])
    /\ CarriesOutOfDomain => ~first.job.ok

C11_Witness ==
    /\ pc = "parsed" /\ FromList
    /\ \E i \in 1..Len(input) :
          /\ Len(input[i]) = 3 /\ input[i][1] > input[i][2] /\ input[i][1] = input[i][3]
          /\ cron.parts[i] = <<input[i][2], input[i][1]>>

\* the parts the fields of the first text parse to, one by one
FieldParts ==
    [i \in 1..Len(TextFields) |-> CronPartFromStr(Units(dialect)[i], TextFields[i])]

\* the first text has the dialect's number of fields and each field parses
FieldsParse ==
    /\ FromText /\ Len(TextFields) = Len(Units(dialect))
    /\ \A i \in 1..Len(TextFields) : FieldParts[i].ok

\* C12: a 5-field text whose day-of-month and day-of-week are both "?" is
\* refused with the validation error (ValueError, the error of the other
\* malformed inputs), and no expression is constructed.
C12_BothUnconstrainedRejected ==
    (FromText /\ dialect = "std" /\ Len(TextFields) = 5
       /\ TextFields[3] = <<"?">> /\ TextFields[5] = <<"?">>)
        => (~first.job.ok /\ first.job.err = "ValueError")

\* C13: the day/weekday validation refuses only when both sets are empty:
\* a text with the right number of fields, each of which parses, whose
\* day-of-month and day-of-week sets are not both empty is constructed,
\* also when the two sets hold the same values.
C13_OnlyBothEmptyRejected ==
    (FieldsParse /\ ~(FieldParts[3].values = <<>> /\ FieldParts[5].values = <<>>))
        => first.job.ok

\* a token of the form n, a-b, n/s or a-b/s, written with numbers only
PlainToken(token) ==
    LET sp == must_split(token)
        bounds == Split(sp.range, "-")
    IN  /\ Count(token, "/") <= 1
        /\ Len(bounds) \in {1, 2}
        /\ \A j \in 1..Len(bounds) : ParseInt(bounds[j]).ok
        /\ Len(bounds) = 2 => ParseInt(bounds[1]).n <= ParseInt(bounds[2]).n
        /\ sp.present => (ParseInt(sp.step).ok /\ ParseInt(sp.step).n >= 1)

\* the integers a plain token writes: the scalar, the members of the range,
\* or every s-th member of the range counted from its lower bound
Written(token) ==
    LET sp == must_split(token)
        bounds == Split(sp.range, "-")
        lo == ParseInt(bounds[1]).n
        hi == ParseInt(bounds[Len(bounds)]).n
        st == IF sp.present THEN ParseInt(sp.step).n ELSE 1
    IN  {v \in lo..hi : (v - lo) % st = 0}

\* the integers a field text of plain tokens writes
WrittenValues(field) ==
    UNION { Written(Split(field, ",")[k]) : k \in 1..Len(Split(field, ",")) }

\* the same integers with 0 in the place of 7, as a value list
SundayAsZero(S) == SortedSeq({IF v = 7 THEN 0 ELSE v : v \in S})

\* the weekday field of the first text is made of plain tokens over 0..7
\* and writes a 7
TextWritesSeven ==
    /\ FromText /\ Len(TextFields) = Len(Units(dialect))
    /\ \A i \in {1, 2, 3, 4} \union {j \in {6} : dialect = "aws"} : TextFields[i] = <<"*">>
    /\ \A k \in 1..Len(Split(TextFields[5], ",")) : PlainToken(Split(TextFields[5], ",")[k])
    /\ WrittenValues(TextFields[5]) \subseteq 0..7
    /\ 7 \in WrittenValues(TextFields[5])

\* the weekday list of the first list input is over 0..7 and holds a 7
ListHoldsSeven ==
    /\ FromList /\ Len(input) = Len(Units(dialect))
    /\ \A i \in 1..Len(input) : i # 5 => input[i] = Range(Units(dialect)[i].min, Units(dialect)[i].max)
    /\ SeqSet(input[5]) \subseteq 0..7
    /\ 7 \in SeqSet(input[5])

\* C14: in the day-of-week field 7 writes Sunday: a text or a list that
\* writes a 7 is constructed with the value set of the same integers with 0
\* in the place of 7, and 7 never appears in a constructed value list.
C14_SevenIsSunday ==
    /\ TextWritesSeven =>
          (first.job.ok /\ first.job.parts[5] = SundayAsZero(WrittenValues(TextFields[5])))
    /\ ListHoldsSeven =>
          (first.job.ok /\ first.job.parts[5] = SundayAsZero(SeqSet(input[5])))
    /\ cron.ok => ~Contains(cron.parts[5], 7)

(***************************************************************************)
(* Properties of serialization.                                             *)
(***************************************************************************)
\* str(job) has been taken and the job is still at hand
Printed == pc = "printed"

\* the fields of the written text
OutFields == Split(text, " ")

\* the values are an arithmetic progression of step values[2] - values[1]
Progression(values) ==
    /\ Len(values) >= 2
    /\ \A i \in 2..Len(values) : values[i] - values[i - 1] = values[2] - values[1]

\* the values cover the unit's domain
CoversDomain(unit, values) == SeqSet(values) = unit.min..unit.max

\* the progression starts at the domain minimum and ends within one step
\* of the domain maximum
SpansDomain(unit, values) ==
    /\ values[1] = unit.min
    /\ values[Len(values)] + (values[2] - values[1]) > unit.max

\* the interval form of a progression, written with numbers and "*"
IntervalText(unit, values) ==
    IF SpansDomain(unit, values)
    THEN <<"*", "/">> \o Str(values[2] - values[1])
    ELSE Str(values[1]) \o <<"-">> \o Str(values[Len(values)])
           \o <<"/">> \o Str(values[2] - values[1])

\* the interval form under the options: names for the bounds, H for "*"
\* and H(min-max) for min-max under the hash option
IntervalTextOpt(unit, opts, values) ==
    LET bounds == filler(unit, opts, values[1]) \o <<"-">>
                    \o filler(unit, opts, values[Len(values)])
        head == IF SpansDomain(unit, values)
                THEN (IF opts.output_hashes THEN <<"H">> ELSE <<"*">>)
                ELSE (IF opts.output_hashes THEN <<"H", "(">> \o bounds \o <<")">>
                      ELSE bounds)
    IN  head \o <<"/">> \o Str(values[2] - values[1])

\* C15 as stated: every value list that does not cover its domain and is an
\* arithmetic progression of step s = values[1]-values[0] is written in the
\* interval form, */s when it spans the domain and min-max/s otherwise.
C15_IntervalAnyProgression ==
    Printed =>
        \A i \in 1..Len(cron.parts) :
            (Progression(cron.parts[i]) /\ ~CoversDomain(Units(dialect)[i], cron.parts[i]))
                => OutFields[i] = IntervalText(Units(dialect)[i], cron.parts[i])

\* C15 amended: every value list of at least three values that is an
\* arithmetic progression of step s > 1 is written in the interval form:
\* */s when it spans the domain, min-max/s otherwise, the bounds written
\* per the name options and "*" / min-max written H / H(min-max) under the
\* hash option.
C15_IntervalCompression ==
    Printed =>
        \A i \in 1..Len(cron.parts) :
            (/\ Progression(cron.parts[i])
             /\ Len(cron.parts[i]) >= 3
             /\ cron.parts[i][2] - cron.parts[i][1] > 1)
                => OutFields[i] = IntervalTextOpt(Units(dialect)[i], option, cron.parts[i])

C15_Witness ==
    /\ Printed /\ option = DefaultOptions
    /\ cron.parts[2] = <<9, 11, 13, 15, 17>>
    /\ OutFields[1] = <<"*", "/", "5">>
    /\ OutFields[2] = <<"9", "-", "1", "7", "/", "2">>

\* the value list is written in the interval form
WrittenAsInterval(values) ==
    Progression(values) /\ Len(values) >= 3 /\ values[2] - values[1] > 1

\* the indices at which a maximal run of consecutive integers starts
RunStarts(values) ==
    SelectSeq([i \in 1..Len(values) |-> i],
              LAMBDA i : i = 1 \/ values[i - 1] + 1 # values[i])

\* the index at which the k-th maximal run ends
RunEnd(values, k) ==
    IF k = Len(RunStarts(values)) THEN Len(values) ELSE RunStarts(values)[k + 1] - 1

\* the k-th maximal run as text: start-end, or the lone value
RunText(unit, opts, values, k) ==
    LET st == RunStarts(values)[k]
        en == RunEnd(values, k)
    IN  IF st = en THEN filler(unit, opts, values[st])
        ELSE filler(unit, opts, values[st]) \o <<"-">> \o filler(unit, opts, values[en])

\* C16: a non-empty value list that neither covers its domain nor is
\* written as an interval is written as the comma-joined list, in ascending
\* order, of its maximal runs of consecutive integers: start-end for a run
\* of two or more values, the value itself for a lone one (values written
\* per the name options).
C16_RunCompression ==
    Printed =>
        \A i \in 1..Len(cron.parts) :
            (/\ cron.parts[i] # <<>>
             /\ ~CoversDomain(Units(dialect)[i], cron.parts[i])
             /\ ~WrittenAsInterval(cron.parts[i]))
                => OutFields[i] =
                     Join([k \in 1..Len(RunStarts(cron.parts[i])) |->
                              RunText(Units(dialect)[i], option, cron.parts[i], k)],
                          <<",">>)

C16_Witness ==
    /\ Printed /\ option = DefaultOptions
    /\ cron.parts[1] = <<0, 3, 5, 6, 10, 15, 20, 25, 30, 35, 40, 45, 50, 55>>
    /\ OutFields[1] = <<"0", ",", "3", ",", "5", "-", "6", ",", "1", "0", ",", "1", "5", ",",
                        "2", "0", ",", "2", "5", ",", "3", "0", ",", "3", "5", ",",
                        "4", "0", ",", "4", "5", ",", "5", "0", ",", "5", "5">>
    /\ OutFields[4] = <<"1", "-", "3">>

(***************************************************************************)
(* Properties of comparison.                                                *)
(***************************************************************************)
\* the two expressions have been constructed and compared
Compared == pc = "compared"

\* the value lists in the precedence order: (year if present,) month,
\* weekday, day, hour, minute
Precedence(job) ==
    (IF Len(job.parts) = 6 THEN <<job.parts[6]>> ELSE <<>>)
      \o <<job.parts[4], job.parts[5], job.parts[3], job.parts[2], job.parts[1]>>

\* a is less than b at the first position of the precedence order where
\* their value lists differ
LexLess(a, b) ==
    \E k \in 1..Len(Precedence(a)) :
        /\ \A j \in 1..(k - 1) : Precedence(a)[j] = Precedence(b)[j]
        /\ Precedence(a)[k] # Precedence(b)[k]
        /\ ListLess(Precedence(a)[k], Precedence(b)[k])

\* C17: for two 5-field expressions a and b, a < b holds exactly when a's
\* value list is the lesser at the first position of the order month,
\* weekday, day, hour, minute where they differ; a < b and b < a never
\* both hold.
C17_LexicographicOrder ==
    (Compared /\ Len(cron.parts) = 5 /\ Len(other.parts) = 5) =>
        /\ cmp.lt <=> LexLess(cron, other)
        /\ ~(cmp.lt /\ cmp.gt)

\* the inputs of the repository's comparison test
TestPair ==
    /\ input[1] = [dialect |-> "std", kind |-> "str",
                   value |-> Fields(<<Stepped(Star, 5), Star, Star, Star, Star>>)]
    /\ input[2] = [dialect |-> "std", kind |-> "str",
                   value |-> Fields(<<Listed(Stepped(Star, 5), Listed(Str(3), Str(6))),
                                      Stepped(Rng(9, 17), 2), Star, Rng(1, 3), Rng(1, 5)>>)]

\* C18: the expression parsed from "*/5 * * * *" is not equal to, and
\* compares less than, the one parsed from "*/5,3,6 9-17/2 * 1-3 1-5".
C18_TestPairLess ==
    (pc \in {"rejected", "compared"} /\ TestPair) =>
        (pc = "compared" /\ cmp.ne /\ ~cmp.eq /\ cmp.lt)

C18_Witness ==
    /\ Compared /\ TestPair
    /\ cron.parts[1] = <<0, 5, 10, 15, 20, 25, 30, 35, 40, 45, 50, 55>>
    /\ other.parts[4] = <<1, 2, 3>>

\* the two expressions have six fields and differ in the year only
DifferInYearOnly ==
    /\ Len(cron.parts) = 6 /\ Len(other.parts) = 6
    /\ \A i \in 1..5 : cron.parts[i] = other.parts[i]
    /\ cron.parts[6] # other.parts[6]

\* C19: two 6-field expressions that differ only in their year sets are
\* not equal and compare by the year value lists: the one with the lesser
\* year list is less.
C19_YearFirst ==
    (Compared /\ DifferInYearOnly) =>
        /\ cmp.ne /\ ~cmp.eq
        /\ cmp.lt <=> ListLess(cron.parts[6], other.parts[6])
        /\ cmp.gt <=> ListLess(other.parts[6], cron.parts[6])

\* C20: two expressions are equal exactly when they have the same fields
\* with the same value lists, position by position; expressions that
\* differ in a field, or of which one has a field the other lacks, are not
\* equal (the options play no part).
C20_EqualIffSameFields ==
    Compared =>
        /\ cmp.eq <=> (cron.parts = other.parts)
        /\ cmp.ne <=> (cron.parts # other.parts)

(***************************************************************************)
(* Properties of the number of fields and of malformed tokens.              *)
(***************************************************************************)
\* the number of fields the first input has
InputLength == IF FromText THEN Len(TextFields) ELSE Len(input)

\* the part the code builds for field i of the first input
FieldBuilt(i) ==
    IF FromText THEN FieldParts[i]
    ELSE CronPartFromList(Units(dialect)[i], input[i])

\* C21: a constructed expression owns exactly cron_length value lists (5
\* for the standard dialect, 6 for AWS), the i-th one built from the i-th
\* field with the i-th unit of minute, hour, day, month, weekday[, year];
\* an input with another number of fields fails with ValueError and
\* nothing is constructed.
C21_FieldCount ==
    /\ cron.ok =>
          /\ Len(cron.parts) = (IF dialect = "aws" THEN 6 ELSE 5)
          /\ Constructed => InputLength = Len(cron.parts)
          /\ pc = "parsed" =>
                \A i \in 1..Len(cron.parts) : cron.parts[i] = FieldBuilt(i).values
    /\ (Constructed /\ InputLength # (IF dialect = "aws" THEN 6 ELSE 5))
          => (~first.job.ok /\ first.job.err = "ValueError" /\ first.job.parts = <<>>)

C21_Witness ==
    /\ pc = "failed" /\ FromText /\ Len(TextFields) = 7
    /\ \A i \in 1..7 : TextFields[i] = <<"*">>
    /\ first.job.err = "ValueError"

\* the token cannot be read: more than one "/", a step that is present but
\* not a positive integer, or a range whose upper bound is below the lower
MalformedToken(token) ==
    LET sp == must_split(token)
        bounds == Split(sp.range, "-")
    IN  \/ Count(token, "/") > 1
        \/ sp.present /\ (~ParseInt(sp.step).ok \/ ParseInt(sp.step).n < 1)
        \/ /\ Len(bounds) = 2
           /\ ParseInt(bounds[1]).ok /\ ParseInt(bounds[2]).ok
           /\ ParseInt(bounds[2]).n < ParseInt(bounds[1]).n

\* the first text has the right number of fields and one of them is not
\* "?" and holds a malformed token
HasMalformedToken ==
    /\ FromText /\ Len(TextFields) = Len(Units(dialect))
    /\ \E i \in 1..Len(TextFields) :
          /\ TextFields[i] # <<"?">>
          /\ \E k \in 1..Len(Split(TextFields[i], ",")) :
                MalformedToken(Split(TextFields[i], ",")[k])

\* C22: a field with a malformed token (more than one "/", a step that is
\* present but not a positive integer, a range with upper bound below the
\* lower) makes the construction fail with ValueError; nothing is
\* constructed from the other tokens.
C22_MalformedTokenFails ==
    HasMalformedToken =>
        (~first.job.ok /\ first.job.err = "ValueError" /\ first.job.parts = <<>>)

C22_Witness ==
    /\ pc = "failed" /\ HasMalformedToken
    /\ \E i \in 1..Len(TextFields) :
          /\ Len(Split(TextFields[i], ",")) = 2
          /\ ~MalformedToken(Split(TextFields[i], ",")[1])
          /\ from_token(Units(dialect)[i], Split(TextFields[i], ",")[1]).ok
          /\ MalformedToken(Split(TextFields[i], ",")[2])

\* C23: "?" is legal in day-of-month and day-of-week only: in a constructed
\* expression the minute, hour, month and year lists are non-empty, and a
\* "?" in one of those fields makes the construction fail.
C23_QuestionOnlyDays ==
    /\ cron.ok => \A i \in 1..Len(cron.parts) : i \notin {3, 5} => cron.parts[i] # <<>>
    /\ (FromText /\ Len(TextFields) = Len(Units(dialect))
          /\ \E i \in 1..Len(TextFields) : i \notin {3, 5} /\ TextFields[i] = <<"?">>)
         => ~first.job.ok

\* the first text is "*" everywhere but for one token n/s in field i
SingleStart(i) ==
    /\ FromText /\ Len(TextFields) = Len(Units(dialect))
    /\ \A j \in 1..Len(TextFields) : j # i => TextFields[j] = <<"*">>
    /\ Count(TextFields[i], ",") = 0 /\ Count(TextFields[i], "-") = 0
    /\ must_split(TextFields[i]).present
    /\ ParseInt(must_split(TextFields[i]).range).ok
    /\ ParseInt(must_split(TextFields[i]).step).ok
    /\ ParseInt(must_split(TextFields[i]).step).n >= 1
    /\ ParseInt(must_split(TextFields[i]).range).n >= Units(dialect)[i].min
    /\ ParseInt(must_split(TextFields[i]).range).n <= Units(dialect)[i].max

\* every s-th value from n up to the domain maximum
EveryFrom(unit, n, s) ==
    SortedSeq({v \in n..unit.max : (v - n) % s = 0})

\* C24: a token n/s denotes every s-th value from n up to the domain
\* maximum (0/15 in the minute field: 0, 15, 30, 45).
C24_StartStep ==
    \A i \in 1..Len(Units(dialect)) :
        SingleStart(i) =>
            /\ first.job.ok
            /\ first.job.parts[i] =
                  EveryFrom(Units(dialect)[i],
                            ParseInt(must_split(TextFields[i]).range).n,
                            ParseInt(must_split(TextFields[i]).step).n)

(***************************************************************************)
(* Properties of the serialization options.                                 *)
(***************************************************************************)
\* the options at hand with the hash option off / the name options off
HashOff(opts) == [opts EXCEPT !.output_hashes = FALSE]

NamesOff(opts) ==
    [opts EXCEPT !.output_weekday_names = FALSE, !.output_month_names = FALSE]

\* the text of a field written without the hash option, with H in the
\* place of the wildcard: "*" is H, "*/s" is H/s, "a-b/s" is H(a-b)/s, and
\* a list of runs and scalars is left as it is
Hashed(plain) ==
    IF plain = <<"*">> THEN <<"H">>
    ELSE IF plain[1] = "*" THEN <<"H">> \o Tail(plain)
    ELSE IF Count(plain, "/") = 1
         THEN <<"H", "(">> \o must_split(plain).range \o <<")", "/">>
                \o must_split(plain).step
    ELSE plain

\* C25: with the hash option on, only the wildcard is replaced: a
\* full-domain field is written H, a full interval H/s, a partial interval
\* H(min-max)/s, and a field written as a list of runs and scalars is
\* written exactly as without the option; the value lists of the
\* expression are those of the parse, whatever the option.
C25_HashReplacesWildcard ==
    (Printed /\ option.output_hashes) =>
        /\ \A i \in 1..Len(cron.parts) :
              OutFields[i] =
                  Hashed(PartStr(Units(dialect)[i], HashOff(option), cron.parts[i]))
        /\ cron = first.job

C25_Witness ==
    /\ Printed /\ option.output_hashes /\ option = [DefaultOptions EXCEPT !.output_hashes = TRUE]
    /\ OutFields[2] = <<"H", "(", "9", "-", "1", "7", ")", "/", "2">>
    /\ OutFields[3] = <<"H">>
    /\ OutFields[4] = <<"1", "-", "3">>
    /\ OutFields[5] = <<"1", "-", "5">>
    /\ cron.parts[1] = <<0, 3, 5, 6, 10, 15, 20, 25, 30, 35, 40, 45, 50, 55>>

\* the name option of the unit is on
NamesOn(unit, opts) ==
    \/ unit.name = "weekday" /\ opts.output_weekday_names
    \/ unit.name = "month" /\ opts.output_month_names

\* the symbolic name of v in the unit's table: alt[v - min]
NameOf(unit, v) == NameChars(unit.alt[v - unit.min + 1])

\* "a" or "a-b" with the names of a and b
NamedBounds(unit, bounds) ==
    Join([j \in 1..Len(Split(bounds, "-")) |->
             NameOf(unit, ParseInt(Split(bounds, "-")[j]).n)], <<"-">>)

\* the range part of a token with names for its numbers; a wildcard is
\* left as it is and H(a-b) keeps its wrapping
NamedRange(unit, r) ==
    IF r \in {<<"*">>, <<"H">>, <<"?">>} THEN r
    ELSE IF r[1] = "H"
         THEN <<"H", "(">> \o NamedBounds(unit, SubSeq(r, 3, Len(r) - 1)) \o <<")">>
    ELSE NamedBounds(unit, r)

\* a numeric field text with the name of every number written for a value
\* (scalars and bounds; a step stays a number)
Named(unit, plain) ==
    Join([k \in 1..Len(Split(plain, ",")) |->
             LET sp == must_split(Split(plain, ",")[k])
             IN  NamedRange(unit, sp.range)
                   \o (IF sp.present THEN <<"/">> \o sp.step ELSE <<>>)],
         <<",">>)

\* C26: with the weekday-name / month-name option on, every number written
\* for a value of that field (scalars, both bounds of ranges and of partial
\* intervals) is written as the name alt[v - min]; every other field stays
\* numeric; every name reads back as its number, and (with the hash option
\* off) the written text parses to the same value lists.
C26_NamesWrittenAndRead ==
    /\ Printed =>
          \A i \in 1..Len(cron.parts) :
              OutFields[i] =
                  IF NamesOn(Units(dialect)[i], option)
                  THEN Named(Units(dialect)[i],
                             PartStr(Units(dialect)[i], NamesOff(option), cron.parts[i]))
                  ELSE PartStr(Units(dialect)[i], NamesOff(option), cron.parts[i])
    /\ Printed =>
          \A i \in {4, 5} : \A v \in Units(dialect)[i].min..Units(dialect)[i].max :
              replace_alternative(Units(dialect)[i], Upper(NameOf(Units(dialect)[i], v))) = Str(v)
    /\ (Reparsed /\ ~option.output_hashes
          /\ (option.output_weekday_names \/ option.output_month_names))
         => (cron.ok /\ cron.parts = first.job.parts)

C26_Witness ==
    /\ Printed
    /\ option = [DefaultOptions EXCEPT !.output_weekday_names = TRUE,
                                       !.output_month_names = TRUE]
    /\ OutFields[1] = <<"*", "/", "5">>
    /\ OutFields[2] = <<"9", "-", "1", "7", "/", "2">>
    /\ OutFields[4] = <<"J", "A", "N", "-", "M", "A", "R", ",", "M", "A", "Y">>
    /\ OutFields[5] = <<"M", "O", "N", "-", "F", "R", "I">>

(***************************************************************************)
(* Properties of the step filter.                                           *)
(***************************************************************************)
\* the first text is wildcards but for field i, which is one token a-b/s
\* with its bounds in the field's domain (7 allowed for the weekday)
SingleSteppedRange(i) ==
    /\ FromText /\ Len(TextFields) = Len(Units(dialect))
    /\ \A j \in 1..Len(TextFields) : j # i => TextFields[j] = <<"*">>
    /\ Count(TextFields[i], ",") = 0
    /\ PlainToken(TextFields[i])
    /\ must_split(TextFields[i]).present
    /\ Count(TextFields[i], "-") = 1
    /\ ParseInt(Split(must_split(TextFields[i]).range, "-")[1]).n >= Units(dialect)[i].min
    /\ ParseInt(Split(must_split(TextFields[i]).range, "-")[2]).n
          <= (IF i = 5 THEN 7 ELSE Units(dialect)[i].max)

\* C28: a token range/step keeps exactly the values of the range congruent
\* to its minimum modulo the step, and in the day-of-week field 7 becomes 0
\* in the values that survive the filter (5-7/2 gives {0, 5}, 1-7/3 gives
\* {0, 1, 4}).
C28_StepThenRemap ==
    \A i \in 1..Len(Units(dialect)) :
        SingleSteppedRange(i) =>
            /\ first.job.ok
            /\ first.job.parts[i] =
                  IF i = 5 THEN SundayAsZero(Written(TextFields[i]))
                           ELSE SortedSeq(Written(TextFields[i]))

(***************************************************************************)
(* on.py: crontab_generate and the schedule model's CronJob(value).         *)
(***************************************************************************)
Lower(s) ==
    [i \in 1..Len(s) |->
        IF \E k \in 1..26 : UpperLetters[k] = s[i]
        THEN LowerLetters[CHOOSE k \in 1..26 : UpperLetters[k] = s[i]]
        ELSE s[i]]

\* str.title() of one word: the first letter upper, the others lower
Title(s) ==
    IF s = <<>> THEN s ELSE Upper(SubSeq(s, 1, 1)) \o Lower(SubSeq(s, 2, Len(s)))

\* s.lstrip('0')
LStripZero(s) ==
    LET k == CHOOSE j \in 0..Len(s) :
                 /\ \A i \in 1..j : s[i] = "0"
                 /\ j < Len(s) => s[j + 1] # "0"
    IN  SubSeq(s, k + 1, Len(s))

\* time.split(":", maxsplit=1) for a time holding a colon
SplitOnce(s) ==
    LET k == CHOOSE j \in 1..Len(s) : s[j] = ":" /\ \A i \in 1..(j - 1) : s[i] # ":"
    IN  [h |-> SubSeq(s, 1, k - 1), m |-> SubSeq(s, k + 1, Len(s))]

\* the WEEKDAYS table: Sun is 0 ... Sat is 6
WEEKDAYS(key) ==
    CASE key = <<"S", "u", "n">> -> 0 [] key = <<"M", "o", "n">> -> 1
      [] key = <<"T", "u", "e">> -> 2 [] key = <<"W", "e", "d">> -> 3
      [] key = <<"T", "h", "u">> -> 4 [] key = <<"F", "r", "i">> -> 5
      [] key = <<"S", "a", "t">> -> 6

\* crontab_generate(interval, day, time)
crontab_generate(ival, day, time) ==
    LET hm == SplitOnce(time)
    IN  LStripZero(hm.h) \o <<" ">> \o LStripZero(hm.m) \o <<" ">>
          \o (IF ival = "monthly" THEN <<"1">> ELSE <<"*">>) \o <<" ", "*", " ">>
          \o (IF ival = "daily" THEN <<"*">>
              ELSE Str(WEEKDAYS(Title(SubSeq(day, 1, 3)))))

Intervals == {"daily", "weekly", "monthly"}

DayNames ==
    { <<"m", "o", "n", "d", "a", "y">>, <<"t", "u", "e", "s", "d", "a", "y">>,
      <<"w", "e", "d", "n", "e", "s", "d", "a", "y">>,
      <<"t", "h", "u", "r", "s", "d", "a", "y">>, <<"f", "r", "i", "d", "a", "y">>,
      <<"s", "a", "t", "u", "r", "d", "a", "y">>, <<"s", "u", "n", "d", "a", "y">> }

\* sample times HH:MM
Times ==
    { <<"0", "0", ":", "0", "0">>, <<"0", "1", ":", "3", "0">>,
      <<"1", "8", ":", "3", "0">>, <<"0", "5", ":", "1", "0">>,
      <<"1", "0", ":", "0", "0">>, <<"0", "0", ":", "3", "0">>,
      <<"2", "3", ":", "5", "9">>, <<"1", "2", ":", "0", "5">> }

InitGenerate ==
    /\ dialect = "std"
    /\ pc = "params"
    /\ input \in [interval : Intervals, day : DayNames, time : Times]
    /\ text = NoText
    /\ option = DefaultOptions
    /\ other = NoJob
    /\ cmp = NoCmp
    /\ search = NoSearch
    /\ runners = NoRunners
    /\ log = NoLog
    /\ cron = NoJob
    /\ first = NoFirst
    /\ true_start = NoDate
    /\ date = NoDate
    /\ start_date = NoDate
    /\ reset_flag = TRUE
    /\ calls = 0
    /\ last = [op |-> "none", ok |-> TRUE, result |-> NoDate, before |-> NoDate,
               origin |-> NoDate, flag |-> TRUE,
               pop |-> "none", pok |-> TRUE, presult |-> NoDate]

\* value = crontab_generate(interval, day, time)
Generate ==
    /\ pc = "params"
    /\ text' = crontab_generate(input.interval, input.day, input.time)
    /\ pc' = "generated"
    /\ UNCHANGED <<cron, true_start, date, start_date, reset_flag, calls, last,
                   option, dialect, first, input, other, cmp,
                   search, runners, log>>

\* BaseSchedule.__prepare_cronjob: CronJob(value) for the generated text
PrepareCronjob ==
    /\ pc = "generated"
    /\ cron' = CronJobFromStr(Units(dialect), text)
    /\ pc' = "prepared"
    /\ UNCHANGED <<true_start, date, start_date, reset_flag, calls, last,
                   text, option, dialect, first, input, other, cmp,
                   search, runners, log>>

NextGenerate == Generate \/ PrepareCronjob

SpecGenerate == InitGenerate /\ [][NextGenerate]_vars

\* the documented call and its documented result
Documented(ival, day, time, result) ==
    (input.interval = ival /\ input.day = day /\ input.time = time)
        => text = result

\* C27: for every interval, weekday name and time HH:MM, crontab_generate
\* returns exactly five non-empty blank-separated fields that CronJob
\* accepts, and the documented calls return the documented texts.
C27_GeneratedAccepted ==
    /\ pc \in {"generated", "prepared"} =>
          /\ Len(SplitBlank(text)) = 5
          /\ Documented("daily", <<"m", "o", "n", "d", "a", "y">>,
                        <<"0", "1", ":", "3", "0">>,
                        <<"1", " ", "3", "0", " ", "*", " ", "*", " ", "*">>)
          /\ Documented("weekly", <<"f", "r", "i", "d", "a", "y">>,
                        <<"1", "8", ":", "3", "0">>,
                        <<"1", "8", " ", "3", "0", " ", "*", " ", "*", " ", "5">>)
          /\ Documented("monthly", <<"m", "o", "n", "d", "a", "y">>,
                        <<"0", "0", ":", "0", "0">>,
                        <<"0", " ", "0", " ", "1", " ", "*", " ", "*">>)
    /\ pc = "prepared" => cron.ok

(***************************************************************************)
(* find_date and __shift_date step by step: one action per iteration of     *)
(* the `for` loop, per entry of a level, per iteration of the `while` loop. *)
(***************************************************************************)
\* the unit of a level of the search
ModeUnit(mode) ==
    CHOOSE unit \in SeqSet(CRON_UNITS) : unit.name = mode

\* the values a level can visit before its parent unit changes
StepCap(mode) == ModeUnit(mode).max - ModeUnit(mode).min + 1

\* the level __shift_date is running for
SearchMode == Modes[search.level]

\* the runners followed step by step
SearchRunners == { r \in Runners : r[2] \in FewStarts }

InitSearch ==
    /\ \E r \in SearchRunners : cron = r[1] /\ true_start = r[2]
    /\ date = InitDate(true_start)
    /\ start_date = InitDate(true_start)
    /\ reset_flag = TRUE
    /\ calls = 0
    /\ last = [op |-> "init", ok |-> TRUE, result |-> NoDate, before |-> NoDate,
               origin |-> NoDate, flag |-> TRUE,
               pop |-> "none", pok |-> TRUE, presult |-> NoDate]
    /\ text = NoText
    /\ option = DefaultOptions
    /\ dialect = IF Len(cron.parts) = 6 THEN "aws" ELSE "std"
    /\ pc = "idle"
    /\ first = NoFirst
    /\ input = NoInput
    /\ other = NoJob
    /\ cmp = NoCmp
    /\ search = NoSearch
    /\ runners = NoRunners
    /\ log = NoLog

\* the frame of find_date(reverse) on entry
Frame(reverse) ==
    [reverse |-> reverse, passes |-> 0, level |-> 0, current_value |-> 0, steps |-> 0]

\* CronRunner.next up to the `for` loop of find_date
CallNext ==
    /\ pc = "idle" /\ calls < MaxSearches
    /\ date' = NextOrigin(date, reset_flag)
    /\ reset_flag' = FALSE
    /\ search' = Frame(FALSE)
    /\ last' = [last EXCEPT !.op = "next", !.before = date, !.flag = reset_flag]
    /\ calls' = calls + 1
    /\ pc' = "find"
    /\ UNCHANGED <<cron, true_start, start_date, text, option, dialect, first,
                   input, other, cmp, runners, log>>

\* CronRunner.prev up to the `for` loop of find_date
CallPrev ==
    /\ pc = "idle" /\ calls < MaxSearches
    /\ date' = PrevOrigin(date)
    /\ reset_flag' = FALSE
    /\ search' = Frame(TRUE)
    /\ last' = [last EXCEPT !.op = "prev", !.before = date, !.flag = reset_flag]
    /\ calls' = calls + 1
    /\ pc' = "find"
    /\ UNCHANGED <<cron, true_start, start_date, text, option, dialect, first,
                   input, other, cmp, runners, log>>

\* CronRunner.reset between two calls
CallReset ==
    /\ pc = "idle" /\ calls < MaxSearches
    /\ date' = ResetState(start_date).date
    /\ reset_flag' = ResetState(start_date).reset_flag
    /\ last' = [last EXCEPT !.op = "reset", !.before = date, !.flag = reset_flag]
    /\ calls' = calls + 1
    /\ UNCHANGED <<cron, true_start, start_date, text, option, dialect, pc, first,
                   input, other, cmp, search, runners, log>>

\* for _ in range(25): one more pass, starting at the month level
BeginPass ==
    /\ pc = "find" /\ search.passes < MaxPasses
    /\ search' = [search EXCEPT !.passes = @ + 1, !.level = 1]
    /\ pc' = "shift"
    /\ UNCHANGED <<cron, true_start, date, start_date, reset_flag, calls, last,
                   text, option, dialect, first, input, other, cmp, runners, log>>

\* the `for` loop is exhausted: raise RecursionError
RaiseError ==
    /\ pc = "find" /\ search.passes >= MaxPasses
    /\ pc' = "raised"
    /\ UNCHANGED <<cron, true_start, date, start_date, reset_flag, calls, last,
                   text, option, dialect, first, input, other, cmp, search,
                   runners, log>>

\* __shift_date(mode, reverse) on entry: current_value is the parent unit
EnterShift ==
    /\ pc = "shift"
    /\ search' = [search EXCEPT !.current_value = DateField(date, Switch(SearchMode)),
                                !.steps = 0]
    /\ pc' = "while"
    /\ UNCHANGED <<cron, true_start, date, start_date, reset_flag, calls, last,
                   text, option, dialect, first, input, other, cmp, runners, log>>

\* __shift_date returned False: all() goes on to the next level, or, after
\* the minute level, find_date returns
LevelDone(frame) ==
    IF frame.level = Len(Modes)
    THEN pc' = "returned" /\ search' = frame
    ELSE pc' = "shift" /\ search' = [frame EXCEPT !.level = @ + 1]

\* one iteration of the while loop: a unit step, then the parent check
WhileStep ==
    /\ pc = "while"
    /\ ShiftCond(cron, date, SearchMode)
    /\ search.steps <= StepCap(SearchMode)
    /\ date' = ShiftStep(date, SearchMode, search.reverse)
    /\ LET frame == [search EXCEPT !.steps = @ + 1]
       IN  IF search.current_value = DateField(date', Switch(SearchMode))
           THEN pc' = "while" /\ search' = frame
           ELSE IF ParentChanged(SearchMode)
                THEN pc' = "find" /\ search' = frame
                ELSE LevelDone(frame)
    /\ UNCHANGED <<cron, true_start, start_date, reset_flag, calls, last,
                   text, option, dialect, first, input, other, cmp, runners, log>>

\* the while condition is false: __shift_date returns False
WhileExit ==
    /\ pc = "while"
    /\ ~ShiftCond(cron, date, SearchMode)
    /\ LevelDone(search)
    /\ UNCHANGED <<cron, true_start, date, start_date, reset_flag, calls, last,
                   text, option, dialect, first, input, other, cmp, runners, log>>

\* find_date returns the cursor with second and microsecond cleared
Return ==
    /\ pc = "returned"
    /\ last' = [last EXCEPT !.ok = TRUE, !.result = Truncate(date)]
    /\ pc' = "idle"
    /\ UNCHANGED <<cron, true_start, date, start_date, reset_flag, calls,
                   text, option, dialect, first, input, other, cmp, search,
                   runners, log>>

\* the RecursionError reaches the caller
Propagate ==
    /\ pc = "raised"
    /\ last' = [last EXCEPT !.ok = FALSE, !.result = NoDate]
    /\ pc' = "idle"
    /\ UNCHANGED <<cron, true_start, date, start_date, reset_flag, calls,
                   text, option, dialect, first, input, other, cmp, search,
                   runners, log>>

\* the steps of a call that is running
StepSearch ==
    BeginPass \/ RaiseError \/ EnterShift \/ WhileStep \/ WhileExit

NextSearch ==
    \/ CallNext
    \/ CallPrev
    \/ CallReset
    \/ BeginPass
    \/ RaiseError
    \/ EnterShift
    \/ WhileStep
    \/ WhileExit
    \/ Return
    \/ Propagate

SpecSearch == InitSearch /\ [][NextSearch]_vars

\* a call that has started keeps executing: the code is sequential and
\* nothing in it waits
FairSearch == SpecSearch /\ WF_vars(StepSearch)

(***************************************************************************)
(* Properties of the search's termination.                                   *)
(***************************************************************************)
Searching == pc \in {"find", "shift", "while"}

Finished == pc \in {"returned", "raised"}

\* the counters of a call: passes and the unit steps of the running level
SearchBounded ==
    /\ search.passes <= 25
    /\ pc \in {"shift", "while"} => search.passes >= 1
    /\ pc = "while" => search.steps <= StepCap(SearchMode)
    /\ pc = "raised" => search.passes = 25

\* C29: every next() and prev() call terminates: a level makes at most as
\* many unit steps as its unit has values, the four-level pass is run at
\* most 25 times, a call fails only after the 25th pass and is not retried,
\* and every call that has started returns an instant or fails.
C29_CallsTerminate ==
    /\ []SearchBounded
    /\ [][/\ pc = "raised" => pc' = "idle"
          /\ (pc = "find" /\ search.passes = 25) => pc' = "raised"]_vars
    /\ Searching ~> Finished

\* a call that ran all 25 passes and failed
C29_Witness == pc = "raised" /\ search.passes = 25 /\ search.steps > 0

(***************************************************************************)
(* Two runners scheduled from one CronJob: cron.schedule(d1) and            *)
(* cron.schedule(d2) hold the same CronJob object and their own cursors.    *)
(***************************************************************************)
\* a slip: the cursor is kept once for all runners
CursorOfFirst(rs, i) == rs[1].date

\* self.date of runner i
Cursor(rs, i) == rs[i].date

\* CronJob.schedule(date): CronRunner(self, date)
schedule(dt) ==
    [date |-> InitDate(dt), start_date |-> InitDate(dt), reset_flag |-> TRUE]

Ops == {"next", "prev", "reset"}

\* runner i of rs makes the call: the runners after it and what it returned
RunnerCall(job, rs, i, op) ==
    IF op = "reset"
    THEN [runners |-> [rs EXCEPT ![i].date = ResetState(rs[i].start_date).date,
                                 ![i].reset_flag = ResetState(rs[i].start_date).reset_flag],
          out |-> [op |-> op, ok |-> TRUE, result |-> NoDate]]
    ELSE LET origin == IF op = "next" THEN NextOrigin(Cursor(rs, i), rs[i].reset_flag)
                                      ELSE PrevOrigin(Cursor(rs, i))
             r == find_date(job, origin, op = "prev")
         IN  [runners |-> [rs EXCEPT ![i].date = r.date, ![i].reset_flag = FALSE],
              out |-> [op |-> op, ok |-> r.ok,
                       result |-> IF r.ok THEN Truncate(r.date) ELSE NoDate]]

\* the expressions and start instants the two runners are scheduled from
TwoCrons ==
    { c \in Crons : c.parts[3] # <<>> /\ c.parts[5] # <<>> /\ Len(c.parts[4]) > 2 }

TwoStarts == { Dt(2024, 1, 1, 12, 0, 30, 0), Dt(2024, 2, 29, 6, 15, 0, 0) }

InitTwo ==
    /\ cron \in TwoCrons
    /\ true_start \in TwoStarts \X TwoStarts
    /\ runners = <<schedule(true_start[1]), schedule(true_start[2])>>
    /\ log = << <<>>, <<>> >>
    /\ first = [text |-> NoText, job |-> cron]
    /\ date = NoDate
    /\ start_date = NoDate
    /\ reset_flag = TRUE
    /\ calls = 0
    /\ last = [op |-> "init", ok |-> TRUE, result |-> NoDate, before |-> NoDate,
               origin |-> NoDate, flag |-> TRUE,
               pop |-> "none", pok |-> TRUE, presult |-> NoDate]
    /\ text = NoText
    /\ option = DefaultOptions
    /\ dialect = IF Len(cron.parts) = 6 THEN "aws" ELSE "std"
    /\ pc = "two"
    /\ input = NoInput
    /\ other = NoJob
    /\ cmp = NoCmp
    /\ search = NoSearch

\* one call on runner i, between the calls on the other runner
Turn(i, op) ==
    /\ calls < MaxTurns
    /\ LET c == RunnerCall(cron, runners, i, op)
       IN  /\ InYears(c.runners[i].date)
           /\ runners' = c.runners
           /\ log' = [log EXCEPT ![i] = Append(@, c.out)]
    /\ calls' = calls + 1
    /\ UNCHANGED <<cron, true_start, date, start_date, reset_flag, last, text,
                   option, dialect, pc, first, input, other, cmp, search>>

TurnNext == \E i \in 1..2 : Turn(i, "next")

TurnPrev == \E i \in 1..2 : Turn(i, "prev")

TurnReset == \E i \in 1..2 : Turn(i, "reset")

NextTwo == TurnNext \/ TurnPrev \/ TurnReset

SpecTwo == InitTwo /\ [][NextTwo]_vars

(***************************************************************************)
(* Properties of two runners.                                               *)
(***************************************************************************)
RECURSIVE AloneFrom(_, _, _, _)
\* what a runner returns for the calls ops[k..] when no other runner exists
AloneFrom(job, rs, ops, k) ==
    IF k > Len(ops) THEN <<>>
    ELSE LET c == RunnerCall(job, rs, 1, ops[k])
         IN  <<c.out>> \o AloneFrom(job, c.runners, ops, k + 1)

\* the results of the calls ops made on a runner scheduled alone from dt
Alone(job, dt, ops) == AloneFrom(job, <<schedule(dt)>>, ops, 1)

\* the calls runner i has made
OpsOf(i) == [k \in 1..Len(log[i]) |-> log[i][k].op]

\* C30: runners are independent: under every interleaving of the calls of
\* two runners scheduled from one expression, each runner returns exactly
\* the results it returns when it makes the same calls alone, and the
\* expression's value lists are never changed.
C30_RunnersIndependent ==
    pc = "two" =>
        /\ \A i \in 1..2 : log[i] = Alone(first.job, true_start[i], OpsOf(i))
        /\ cron = first.job

\* both runners have returned instants, from different cursors, with the
\* calls of one between the calls of the other
C30_Witness ==
    /\ pc = "two"
    /\ Len(log[1]) = 2 /\ Len(log[2]) = 1
    /\ log[1][1].op = "next" /\ log[1][2].op = "next" /\ log[2][1].op = "next"
    /\ log[1][2].ok /\ log[2][1].ok
    /\ runners[1].date # runners[2].date
    /\ true_start[1] = true_start[2]

====
